---- MODULE Spec2Model ----
(***************************************************************************)
(* AgentOS memory store: the path-keyed versioned store (entry_versions,   *)
(* entries), the idempotency table, the dump cache, the embedding job      *)
(* queue and its workers, modelled statement by statement.  Every awaited  *)
(* SQL statement of a handler is one step; the synchronous code that runs  *)
(* when the statement returns belongs to the same step, except where it    *)
(* touches process-local state shared between handlers (the dump cache).   *)
(* Strings that the code inspects (paths, LIKE patterns) are sequences of  *)
(* one-character strings; time is in whole seconds.                        *)
(***************************************************************************)
EXTENDS Integers, Sequences, FiniteSets, TLC

\* ------------------------------------------------------------------ bounds
MaxVersions == 3
MaxTicks == 2
MaxSearches == 2
NumSlots == 2
NumWorkers == 2

MaxFailures == 12

\* ------------------------------------------------------- program constants
MAX_PATH_LEN == 512
MAX_SEGMENTS == 64
DUMP_CACHE_TTL == 60
IDEMPOTENCY_TTL_HOURS == 24
MAX_ATTEMPTS == 5
LIST_CAP == 500
QUOTA_SEARCHES_PER_MINUTE == 120

PREAUTH_RATE_LIMIT_PER_MINUTE == 600

RATE_LIMIT_REQUESTS_PER_MINUTE == 120
DAY_SECONDS == 86400

NULL == -1

\* ------------------------------------------------------------ string helpers
Min(a, b) == IF a < b THEN a ELSE b

Max(a, b) == IF a > b THEN a ELSE b

StartsWith(s, p) == Len(s) >= Len(p) /\ SubSeq(s, 1, Len(p)) = p

EndsWith(s, c) == Len(s) >= 1 /\ s[Len(s)] = c

Slice(s, from) == SubSeq(s, from + 1, Len(s))

RECURSIVE CollapseSlashes(_)
CollapseSlashes(s) ==
  IF Len(s) <= 1 THEN s
  ELSE IF s[1] = "/" /\ s[2] = "/" THEN CollapseSlashes(Tail(s))
  ELSE <<s[1]>> \o CollapseSlashes(Tail(s))

RECURSIVE SplitSlash(_)
SplitSlash(s) ==
  IF \A i \in 1..Len(s) : s[i] # "/" THEN <<s>>
  ELSE LET i == CHOOSE k \in 1..Len(s) : s[k] = "/" /\ \A j \in 1..(k - 1) : s[j] # "/"
       IN <<SubSeq(s, 1, i - 1)>> \o SplitSlash(SubSeq(s, i + 1, Len(s)))

Includes(s, c) == \E i \in 1..Len(s) : s[i] = c

\* path LIKE pat ESCAPE '\': % matches any run, _ one character, \c the character c
RECURSIVE Like(_, _)
Like(s, pat) ==
  IF pat = <<>> THEN s = <<>>
  ELSE IF pat[1] = "%" THEN Like(s, Tail(pat)) \/ (s # <<>> /\ Like(Tail(s), pat))
  ELSE IF pat[1] = "_" THEN s # <<>> /\ Like(Tail(s), Tail(pat))
  ELSE IF pat[1] = "\\" /\ Len(pat) >= 2
       THEN s # <<>> /\ s[1] = pat[2] /\ Like(Tail(s), Tail(Tail(pat)))
  ELSE s # <<>> /\ s[1] = pat[1] /\ Like(Tail(s), Tail(pat))

\* byte order of the characters that occur in paths and keys
Alphabet == <<"%", "*", ".", "/", "?", "\\", "_", "a", "d", "k", "s", "x", "y">>

Rank(c) == CHOOSE i \in 1..Len(Alphabet) : Alphabet[i] = c

\* --------------------------------------------------------------- path module
PathErr == [ok |-> FALSE, path |-> <<>>]

normalizePath(input) ==
  IF input = <<>> THEN PathErr
  ELSE IF ~StartsWith(input, <<"/">>) THEN PathErr
  ELSE IF Len(input) > MAX_PATH_LEN THEN PathErr
  ELSE LET c == CollapseSlashes(input)
           p == IF Len(c) > 1 /\ EndsWith(c, "/") THEN SubSeq(c, 1, Len(c) - 1) ELSE c
           segs == Tail(SplitSlash(p))
       IN IF Len(segs) > MAX_SEGMENTS THEN PathErr
          ELSE IF \E i \in 1..Len(segs) :
                     segs[i] = <<>> \/ segs[i] = <<".">> \/ segs[i] = <<".", ".">>
               THEN PathErr
          ELSE [ok |-> TRUE, path |-> p]

isReservedPath(path) ==
  path = <<"/", "s", "y", "s">> \/ StartsWith(path, <<"/", "s", "y", "s", "/">>)

\* an escape that copies its input: %, _ and \ keep their LIKE meaning
escapeSqlLikeLiteralAs(input) == input

RECURSIVE escapeSqlLikeLiteral(_)
escapeSqlLikeLiteral(input) ==
  IF input = <<>> THEN <<>>
  ELSE IF input[1] \in {"\\", "%", "_"}
       THEN <<"\\", input[1]>> \o escapeSqlLikeLiteral(Tail(input))
  ELSE <<input[1]>> \o escapeSqlLikeLiteral(Tail(input))

\* a translation that maps the wildcards and escapes nothing
RECURSIVE globToSqlLikeAs(_)
globToSqlLikeAs(glob) ==
  IF glob = <<>> THEN <<>>
  ELSE IF glob[1] = "*"
       THEN IF Len(glob) >= 2 /\ glob[2] = "*"
            THEN <<"%">> \o globToSqlLikeAs(Tail(Tail(glob)))
            ELSE <<"%">> \o globToSqlLikeAs(Tail(glob))
  ELSE IF glob[1] = "?" THEN <<"_">> \o globToSqlLikeAs(Tail(glob))
  ELSE <<glob[1]>> \o globToSqlLikeAs(Tail(glob))

RECURSIVE globToSqlLike(_)
globToSqlLike(glob) ==
  IF glob = <<>> THEN <<>>
  ELSE IF glob[1] = "*"
       THEN IF Len(glob) >= 2 /\ glob[2] = "*"
            THEN <<"%">> \o globToSqlLike(Tail(Tail(glob)))
            ELSE <<"%">> \o globToSqlLike(Tail(glob))
  ELSE IF glob[1] = "?" THEN <<"_">> \o globToSqlLike(Tail(glob))
  ELSE IF glob[1] \in {"%", "_", "\\"}
       THEN <<"\\", glob[1]>> \o globToSqlLike(Tail(glob))
  ELSE <<glob[1]>> \o globToSqlLike(Tail(glob))

GlobErr == [ok |-> FALSE, pattern |-> <<>>]

normalizeGlobPattern(input) ==
  IF input = <<>> THEN GlobErr
  ELSE IF ~StartsWith(input, <<"/">>) THEN GlobErr
  ELSE IF Len(input) > MAX_PATH_LEN THEN GlobErr
  ELSE LET c == CollapseSlashes(input)
           p == IF Len(c) > 1 /\ EndsWith(c, "/") THEN SubSeq(c, 1, Len(c) - 1) ELSE c
           segs == Tail(SplitSlash(p))
       IN IF \E i \in 1..Len(segs) :
                segs[i] = <<>> \/ segs[i] = <<".">> \/ segs[i] = <<".", ".">>
          THEN GlobErr
          ELSE [ok |-> TRUE, pattern |-> p]

\* ------------------------------------------------------------------- inputs
Tenants == {"T1", "T2"}

AgentIds == {"a"}

NoKey == "none"

Keys == {"k"}

Values == {1, 2}

\* '{}'::jsonb, the value of a tombstone row
EMPTY_OBJ == 0

P_x == <<"/", "x">>

P_xs == <<"/", "x", "/">>

P_dy == <<"/", "d", "/", "y">>

P_sys == <<"/", "s", "y", "s", "/", "k">>

P_bad == <<"x">>

P_dyk == <<"/", "d", "/", "y", "/", "k">>

P_dpy == <<"/", "d", "%", "/", "y">>

P_dxy == <<"/", "d", "x", "/", "y">>

RawPaths == {P_x, P_xs, P_dy, P_sys, P_bad, P_dyk, P_dpy, P_dxy}

NormPaths == {normalizePath(p).path : p \in {q \in RawPaths : normalizePath(q).ok}}

Triples == Tenants \X AgentIds \X NormPaths

\* ttl_seconds of a PUT body; 0 stands for an absent ttl_seconds
Ttls == {0, 1}

\* QUOTA_WRITES_PER_DAY of the environment, kept small
QuotaWritesPerDay == 2

DumpLimits == {200}

Slots == 1..NumSlots

Workers == 1..NumWorkers

\* -------------------------------------------------------------------- state
VARIABLES
  now,        \* the clock (Date.now() and the database's now()), in seconds
  nticks,     \* how often the clock has advanced
  env,        \* the environment: OPENAI_API_KEY configured or not, the limits
  versions,   \* table entry_versions, in insertion order; id = position
  entries,    \* table entries: triple -> latest_version_id, 0 when no row
  embeddings, \* table embeddings: set of rows, unique on version_id
  jobs,       \* table embedding_jobs: set of rows, unique on version_id
  idem,       \* table idempotency_keys: <<tenant, key>> -> row or NoRow
  quota,      \* table quota_usage: set of rows, unique on (tenant_id, day)
  dumpCache,  \* the process-local dump cache: key -> entry or NoEntry
  req,        \* the API requests in flight, one per slot
  wk,         \* the embedding workers
  api_keys,   \* table api_keys: key id -> row or NoRow
  buckets,    \* the process-local pre-auth token buckets: ip -> bucket or NoEntry
  failedAttempts, \* the process-local failed login counters: key id -> entry or NoEntry
  failLog,    \* history: the times of the recordFailure calls, per key id
  authCache,  \* the process-local auth cache: bearer token -> entry or NoEntry
  limits      \* the process-local rate limit windows: <<tenant, endpoint>> -> entry or NoEntry

vars == <<now, nticks, env, versions, entries, embeddings, jobs, idem, quota, dumpCache, req, wk,
          api_keys, buckets, failedAttempts, failLog, authCache, limits>>

dbVars == <<versions, entries, embeddings, jobs, idem, quota>>

\* what the gates in front of a handler read and write
gateVars == <<api_keys, buckets, failedAttempts, failLog, authCache, limits>>

\* ---------------------------------------------------------------- responses
NoResp == [status |-> 0, code |-> "-", kind |-> "-", found |-> FALSE, version_id |-> 0,
           created_at |-> NULL, expires_at |-> NULL, value |-> EMPTY_OBJ, path |-> <<>>,
           rows |-> <<>>, cache |-> "-", message |-> ""]

NoEntry == [data |-> NoResp, ts |-> NULL]

NoRow == [request_hash |-> <<>>, response_json |-> NoResp, expires_at |-> NULL]

\* a thrown error: statusCode NULL and code "" when the error carries none
Thrown(statusCode, code, message) ==
  [statusCode |-> statusCode, code |-> code, message |-> message]

\* setErrorHandler: { error: { code, message } } with the error's statusCode, code and
\* message; in production a status of 500 and above hides the code and the message
setErrorHandler(err) ==
  LET status == IF err.statusCode = NULL THEN 500 ELSE err.statusCode
      masked == status >= 500 /\ env.NODE_ENV = "production"
  IN [NoResp EXCEPT !.status = status,
                    !.code = IF masked \/ err.code = "" THEN "INTERNAL" ELSE err.code,
                    !.message = IF masked THEN "Internal error" ELSE err.message,
                    !.kind = "error"]

\* the reply to an error whose message no property reads
errorHandler(statusCode, code) == setErrorHandler(Thrown(statusCode, code, ""))

PutResponse(ver) ==
  [NoResp EXCEPT !.status = 200, !.code = "ok", !.kind = "put",
                 !.version_id = ver.id, !.created_at = ver.created_at]

DeleteResponse(ver) ==
  [NoResp EXCEPT !.status = 200, !.code = "ok", !.kind = "delete",
                 !.version_id = ver.id, !.created_at = ver.created_at]

\* ------------------------------------------------------------ the SQL layer
Triple(row) == <<row.tenant_id, row.agent_id, row.path>>

VersionIds == 1..Len(versions)

\* the rows of one triple, oldest first
VersionsOf(t, a, p) ==
  SelectSeq(versions, LAMBDA v : v.tenant_id = t /\ v.agent_id = a /\ v.path = p)

NewVersion(t, a, p, value, searchable, expires_at, deleted_at) ==
  [id |-> Len(versions) + 1, tenant_id |-> t, agent_id |-> a, path |-> p,
   value_json |-> value, searchable |-> searchable, created_at |-> now,
   expires_at |-> expires_at, deleted_at |-> deleted_at]

\* deleted_at IS NULL AND (expires_at IS NULL OR expires_at > now())
Visible(ev) == ev.deleted_at = NULL /\ (ev.expires_at = NULL \/ ev.expires_at > now)

todayUtc == now \div DAY_SECONDS

QuotaRow(t, day) ==
  IF \E q \in quota : q.tenant_id = t /\ q.day = day
  THEN CHOOSE q \in quota : q.tenant_id = t /\ q.day = day
  ELSE [tenant_id |-> t, day |-> day, writes |-> 0, embed_tokens |-> 0, searches |-> 0]

JobStatusCheck == {"queued", "running", "succeeded", "failed"}

\* ------------------------------------------------------- request slots
NoVer == [id |-> 0, created_at |-> NULL]

NoBody == [agent_id |-> "", path |-> <<>>]

\* no (or no well-formed) Authorization header: parseBearer returns null
NoAuth == [id |-> "", secret |-> ""]

\* the outcome of a call of the embeddings provider; none yet
Upstream(kind, status, body) == [kind |-> kind, status |-> status, body |-> body]

NoUpstream == Upstream("-", 0, "")

IdleReq == [op |-> "idle", pc |-> "idle", tenant |-> "", key |-> NoKey, body |-> NoBody,
            path |-> <<>>, expiresAt |-> NULL, ver |-> NoVer, data |-> <<>>, resp |-> NoResp,
            ip |-> "", auth |-> NoAuth, upstream |-> NoUpstream]

NewReq(op, t, k, b) == [IdleReq EXCEPT !.op = op, !.tenant = t, !.key = k, !.body = b]

\* reply.send(resp), or the error handler's reply: the request is over
Reply(rec, resp) ==
  [rec EXCEPT !.pc = "done", !.resp = resp, !.data = <<>>, !.expiresAt = NULL,
              !.path = <<>>, !.ver = NoVer]

Free(r) == req[r].pc \in {"idle", "done"}

PutBodies(paths, values, ttls, flags) ==
  [agent_id : AgentIds, path : paths, value : values, ttl_seconds : ttls, searchable : flags]

DeleteBodies(paths) == [agent_id : AgentIds, path : paths]

\* writes that may still insert a version row
PendingInserts ==
  Cardinality({r \in Slots : req[r].op \in {"put", "delete"}
                             /\ req[r].pc \in {"idem", "idemDel", "quota", "insert"}})

\* ------------------------------------------------------------- idempotency
\* JSON values whose member order matters are trees: a number [t |-> "num", n],
\* an array [t |-> "arr", items: values], an object [t |-> "obj", items: members
\* [k, v] in insertion order].  The request bodies of the handlers are records.
IsJson(body) == "t" \in DOMAIN body

\* Object.keys(value).sort(): the members in the order of their keys
RECURSIVE SortKeys(_)
SortKeys(members) ==
  IF members = <<>> THEN <<>>
  ELSE LET i == CHOOSE j \in 1..Len(members) :
                  \A l \in 1..Len(members) : Rank(members[j].k) <= Rank(members[l].k)
       IN <<members[i]>> \o SortKeys(SubSeq(members, 1, i - 1) \o SubSeq(members, i + 1, Len(members)))

\* a canonicalize that leaves every object as it is
canonicalizeAs(value) == value

RECURSIVE canonicalize(_)
canonicalize(value) ==
  IF value.t = "num" THEN value
  ELSE IF value.t = "arr"
       THEN [value EXCEPT !.items = [i \in 1..Len(value.items) |-> canonicalize(value.items[i])]]
  ELSE LET keys == SortKeys(value.items)
       IN [value EXCEPT !.items = [i \in 1..Len(keys) |->
                                     [k |-> keys[i].k, v |-> canonicalize(keys[i].v)]]]

RECURSIVE JoinComma(_)
JoinComma(texts) ==
  IF texts = <<>> THEN <<>>
  ELSE IF Len(texts) = 1 THEN texts[1]
  ELSE texts[1] \o <<",">> \o JoinComma(Tail(texts))

\* JSON.stringify(value): the text, token by token, members in their order
RECURSIVE JSONstringify(_)
JSONstringify(value) ==
  IF value.t = "num" THEN <<value.n>>
  ELSE IF value.t = "arr"
       THEN <<"[">> \o JoinComma([i \in 1..Len(value.items) |-> JSONstringify(value.items[i])])
            \o <<"]">>
  ELSE <<"{">> \o JoinComma([i \in 1..Len(value.items) |->
                               <<value.items[i].k, ":">> \o JSONstringify(value.items[i].v)])
       \o <<"}">>

canonicalJsonStringify(value) == JSONstringify(canonicalize(value))

\* createHash("sha256").update(text).digest("hex"): no two texts collide
sha256(text) == <<"sha256", text>>

\* sha256 over the canonical JSON; for a record body key order does not matter,
\* a record has none
hashRequestCanonical(body) ==
  IF IsJson(body) THEN sha256(canonicalJsonStringify(body)) ELSE <<"sha256", "sorted", body>>

\* sha256 over JSON.stringify: the keys in the order of the zod schema, which is
\* the sorted order for a DELETE body {agent_id, path} and not for a PUT body
hashRequestLegacy(body) ==
  IF IsJson(body) THEN sha256(JSONstringify(body))
  ELSE IF DOMAIN body = {"agent_id", "path"} THEN <<"sha256", "sorted", body>>
  ELSE <<"sha256", "schema", body>>

\* a lookup that compares no hashes: it never reports a mismatch
IdemMismatchAs(row, body) == FALSE

\* checkIdempotency after its SELECT: what the lookup decides for a row
IdemMismatch(row, body) ==
  row.request_hash # hashRequestCanonical(body) /\ row.request_hash # hashRequestLegacy(body)

IdemExpired(row) == row.expires_at # NULL /\ row.expires_at <= now

\* storeIdempotency: INSERT ... ON CONFLICT (tenant_id, key) DO NOTHING
StoredIdem(t, k, body, response) ==
  IF idem[<<t, k>>] # NoRow THEN idem
  ELSE [idem EXCEPT ![<<t, k>>] =
          [request_hash |-> hashRequestCanonical(body), response_json |-> response,
           expires_at |-> now + IDEMPOTENCY_TTL_HOURS * 60 * 60]]

\* ------------------------------------------------------------- PUT / DELETE
\* the synchronous code between the idempotency lookup and the next statement:
\* normalizePath, and for PUT the reserved-path rule
Proceed(rec) ==
  LET np == normalizePath(rec.body.path)
  IN IF ~np.ok THEN Reply(rec, errorHandler(400, "INVALID_PATH"))
     ELSE IF rec.op = "put" /\ isReservedPath(np.path) THEN Reply(rec, errorHandler(403, ""))
     ELSE [rec EXCEPT !.path = np.path, !.pc = IF rec.op = "put" THEN "quota" ELSE "insert"]

\* authenticate, requireScope, checkRateLimit, Body.parse, getIdempotencyKey
StartWrite(r, op, t, k, b, admitted) ==
  /\ Free(r)
  /\ Len(versions) + PendingInserts < MaxVersions
  /\ QuotaRow(t, todayUtc).writes <= QuotaWritesPerDay
  /\ req' = [req EXCEPT ![r] =
               IF ~admitted THEN Reply(NewReq(op, t, k, b), errorHandler(429, "RATE_LIMIT_EXCEEDED"))
               ELSE IF k # NoKey THEN [NewReq(op, t, k, b) EXCEPT !.pc = "idem"]
               ELSE Proceed(NewReq(op, t, k, b))]
  /\ UNCHANGED <<gateVars, now, nticks, env, dbVars, dumpCache, wk>>

\* a lookup that never answers from the record: a hit is executed like a new write
IdemLookupAs(r) ==
  /\ req[r].pc = "idem"
  /\ LET rec == req[r]
         row == idem[<<rec.tenant, rec.key>>]
     IN req' = [req EXCEPT ![r] =
                  IF row = NoRow THEN Proceed(rec)
                  ELSE IF IdemExpired(row) THEN [rec EXCEPT !.pc = "idemDel"]
                  ELSE IF IdemMismatch(row, rec.body)
                       THEN Reply(rec, errorHandler(422, "IDEMPOTENCY_KEY_MISMATCH"))
                  ELSE Proceed(rec)]
  /\ UNCHANGED <<gateVars, now, nticks, env, dbVars, dumpCache, wk>>

\* checkIdempotency: the SELECT and what follows it
IdemLookup(r) ==
  /\ req[r].pc = "idem"
  /\ LET rec == req[r]
         row == idem[<<rec.tenant, rec.key>>]
     IN req' = [req EXCEPT ![r] =
                  IF row = NoRow THEN Proceed(rec)
                  ELSE IF IdemExpired(row) THEN [rec EXCEPT !.pc = "idemDel"]
                  ELSE IF IdemMismatch(row, rec.body)
                       THEN Reply(rec, errorHandler(422, "IDEMPOTENCY_KEY_MISMATCH"))
                  ELSE Reply(rec, row.response_json)]
  /\ UNCHANGED <<gateVars, now, nticks, env, dbVars, dumpCache, wk>>

\* checkIdempotency: DELETE FROM idempotency_keys of the key found expired
IdemDeleteExpired(r) ==
  /\ req[r].pc = "idemDel"
  /\ idem' = [idem EXCEPT ![<<req[r].tenant, req[r].key>>] = NoRow]
  /\ req' = [req EXCEPT ![r] = Proceed(req[r])]
  /\ UNCHANGED <<gateVars, now, nticks, env, versions, entries, embeddings, jobs, quota, dumpCache, wk>>

\* incWriteQuota: the upsert returning writes, then expiresAt
IncWriteQuota(r) ==
  /\ req[r].pc = "quota"
  /\ LET rec == req[r]
         old == QuotaRow(rec.tenant, todayUtc)
         new == [old EXCEPT !.writes = old.writes + 1]
     IN /\ quota' = (quota \ {old}) \cup {new}
        /\ req' = [req EXCEPT ![r] =
                     IF new.writes > QuotaWritesPerDay
                     THEN Reply(rec, errorHandler(429, "QUOTA_WRITES_PER_DAY"))
                     ELSE [rec EXCEPT !.pc = "insert",
                                      !.expiresAt = IF rec.body.ttl_seconds # 0
                                                    THEN now + rec.body.ttl_seconds
                                                    ELSE NULL]]
  /\ UNCHANGED <<gateVars, now, nticks, env, versions, entries, embeddings, jobs, idem, dumpCache, wk>>

\* a write that updates the newest row in place instead of inserting one
InsertVersionAs(r) ==
  /\ req[r].pc = "insert"
  /\ LET rec == req[r]
         id == Max(1, Len(versions))
         row == [NewVersion(rec.tenant, rec.body.agent_id, rec.path, EMPTY_OBJ, FALSE, NULL, now)
                   EXCEPT !.id = id]
     IN /\ versions' = IF versions = <<>> THEN <<row>> ELSE [versions EXCEPT ![id] = row]
        /\ req' = [req EXCEPT ![r] = [rec EXCEPT !.pc = "upsert",
                                                 !.ver = [id |-> row.id, created_at |-> row.created_at]]]
  /\ UNCHANGED <<gateVars, now, nticks, env, entries, embeddings, jobs, idem, quota, dumpCache, wk>>

\* INSERT INTO entry_versions ... RETURNING id, created_at
InsertVersion(r) ==
  /\ req[r].pc = "insert"
  /\ LET rec == req[r]
         row == IF rec.op = "put"
                THEN NewVersion(rec.tenant, rec.body.agent_id, rec.path, rec.body.value,
                                rec.body.searchable, rec.expiresAt, NULL)
                ELSE NewVersion(rec.tenant, rec.body.agent_id, rec.path, EMPTY_OBJ,
                                FALSE, NULL, now)
     IN /\ versions' = Append(versions, row)
        /\ req' = [req EXCEPT ![r] = [rec EXCEPT !.pc = "upsert",
                                                 !.ver = [id |-> row.id, created_at |-> row.created_at]]]
  /\ UNCHANGED <<gateVars, now, nticks, env, entries, embeddings, jobs, idem, quota, dumpCache, wk>>

\* INSERT INTO entries ... ON CONFLICT DO UPDATE SET latest_version_id
UpsertedEntries(rec) ==
  [entries EXCEPT ![<<rec.tenant, rec.body.agent_id, rec.path>>] = rec.ver.id]

AfterDeleteUpsert(rec) ==
  IF rec.key # NoKey THEN [rec EXCEPT !.pc = "store"] ELSE Reply(rec, DeleteResponse(rec.ver))

AfterPutUpsert(rec) ==
  [rec EXCEPT !.pc = IF ~rec.body.searchable THEN "finish"
                     ELSE IF env.OPENAI_API_KEY THEN "embed" ELSE "enqueue"]

UpsertEntry(r) ==
  /\ req[r].pc = "upsert"
  /\ entries' = UpsertedEntries(req[r])
  /\ req' = [req EXCEPT ![r] = IF req[r].op = "put" THEN AfterPutUpsert(req[r])
                               ELSE AfterDeleteUpsert(req[r])]
  /\ UNCHANGED <<gateVars, now, nticks, env, versions, embeddings, jobs, idem, quota, dumpCache, wk>>

\* ------------------------------------------------- the embeddings provider
\* What the fetch of the provider's endpoint gives: the request fails or times out
\* ("network"), a status outside 200..299 with a body ("status"), a 200 whose body is
\* not JSON ("notjson"), a 200 with JSON that holds no data[0].embedding ("novector"),
\* or a vector ("ok").
OkUpstream == Upstream("ok", 200, "")

NetworkDown == Upstream("network", 0, "")

UpstreamBodies == {"<html>", "quota"}

UpstreamStatuses == {429, 500}

UpstreamResponses ==
  {OkUpstream, NetworkDown, Upstream("novector", 200, "")}
    \cup {Upstream("status", st, b) : st \in UpstreamStatuses, b \in UpstreamBodies}
    \cup {Upstream("notjson", 200, b) : b \in UpstreamBodies}

\* `${res.status}`
StatusText(status) == IF status = 429 THEN "429" ELSE "500"

\* res.json() rejects with the SyntaxError of JSON.parse, whose message quotes the text
\* that failed to parse (the bodies here are shorter than the quoted excerpt)
SyntaxErrorMessage(body) == "Unexpected token, \"" \o body \o "\" is not valid JSON"

NoError == Thrown(NULL, "", "")

\* embedQuery of the API: the error it throws for a provider outcome, NoError for a vector
embedQuery(res) ==
  CASE res.kind \in {"network", "status"} ->
         Thrown(502, "EMBEDDINGS_API_ERROR", "Embeddings service temporarily unavailable")
    [] res.kind = "notjson" -> Thrown(NULL, "", SyntaxErrorMessage(res.body))
    [] res.kind = "novector" ->
         Thrown(502, "EMBEDDINGS_INVALID_RESPONSE", "Invalid embeddings response")
    [] OTHER -> NoError

\* embedText of the worker: the message of the error it throws, "" for a vector
embedText(res) ==
  CASE res.kind = "network" -> "Embeddings service temporarily unavailable"
    [] res.kind = "status" -> "Embeddings API error: " \o StatusText(res.status)
    [] res.kind = "notjson" -> SyntaxErrorMessage(res.body)
    [] res.kind = "novector" -> "Invalid embeddings response"
    [] OTHER -> ""

\* the message of the database error for a status outside embedding_jobs_status_check
StatusCheckViolation ==
  "new row for relation \"embedding_jobs\" violates check constraint \"embedding_jobs_status_check\""

\* --------------------------------------------- PUT: inline embedding, jobs
JobOf(vid) == CHOOSE j \in jobs : j.version_id = vid

HasJob(vid) == \E j \in jobs : j.version_id = vid

NewJob(rec, status, last_error) ==
  [version_id |-> rec.ver.id, tenant_id |-> rec.tenant, agent_id |-> rec.body.agent_id,
   path |-> rec.path, status |-> status, attempts |-> 0, last_error |-> last_error,
   created_at |-> now]

NewEmbedding(vid, t, a, p) == [version_id |-> vid, tenant_id |-> t, agent_id |-> a, path |-> p]

\* INSERT INTO embeddings ... ON CONFLICT (version_id) DO UPDATE SET embedding
UpsertedEmbeddings(vid, t, a, p) ==
  IF \E e \in embeddings : e.version_id = vid THEN embeddings
  ELSE embeddings \cup {NewEmbedding(vid, t, a, p)}

\* await embedQuery(textToEmbed) with the provider's outcome res: a vector, or the
\* call throws into the catch block
EmbedInlineQuery(r, res) ==
  /\ req[r].pc = "embed"
  /\ req' = [req EXCEPT ![r].pc = IF res.kind = "ok" THEN "embInsert" ELSE "enqueueErr",
                         ![r].upstream = res]
  /\ UNCHANGED <<gateVars, now, nticks, env, dbVars, dumpCache, wk>>

\* the provider answers or the request to it fails
EmbedInline(r, ok) == EmbedInlineQuery(r, IF ok THEN OkUpstream ELSE NetworkDown)

\* embErr?.message ?? 'unknown' in the catch block of the inline embedding: the error of
\* embedQuery, or of the job statement that the database rejected
InlineError(res) ==
  IF res.kind = "ok" THEN StatusCheckViolation ELSE embedQuery(res).message

InsertEmbedding(r) ==
  /\ req[r].pc = "embInsert"
  /\ embeddings' = UpsertedEmbeddings(req[r].ver.id, req[r].tenant, req[r].body.agent_id, req[r].path)
  /\ req' = [req EXCEPT ![r].pc = "jobDone"]
  /\ UNCHANGED <<gateVars, now, nticks, env, versions, entries, jobs, idem, quota, dumpCache, wk>>

\* INSERT INTO embedding_jobs (... status) VALUES (... 'done') ON CONFLICT DO UPDATE:
\* embedding_jobs_status_check rejects the row, the statement throws into the catch
InsertJobDone(r) ==
  /\ req[r].pc = "jobDone"
  /\ IF "done" \in JobStatusCheck
     THEN /\ jobs' = IF HasJob(req[r].ver.id)
                     THEN (jobs \ {JobOf(req[r].ver.id)})
                          \cup {[JobOf(req[r].ver.id) EXCEPT !.status = "done"]}
                     ELSE jobs \cup {NewJob(req[r], "done", "")}
          /\ req' = [req EXCEPT ![r].pc = "finish"]
     ELSE /\ jobs' = jobs
          /\ req' = [req EXCEPT ![r].pc = "enqueueErr"]
  /\ UNCHANGED <<gateVars, now, nticks, env, versions, entries, embeddings, idem, quota, dumpCache, wk>>

\* INSERT INTO embedding_jobs (... 'queued' [, last_error]) ON CONFLICT DO NOTHING
EnqueueJob(r) ==
  /\ req[r].pc \in {"enqueue", "enqueueErr"}
  /\ jobs' = IF HasJob(req[r].ver.id) THEN jobs
             ELSE jobs \cup {NewJob(req[r], "queued",
                                    IF req[r].pc = "enqueueErr"
                                    THEN InlineError(req[r].upstream) ELSE "")}
  /\ req' = [req EXCEPT ![r].pc = "finish"]
  /\ UNCHANGED <<gateVars, now, nticks, env, versions, entries, embeddings, idem, quota, dumpCache, wk>>

\* the dump cache key `${tenantId}:${agent_id}:${limit}`
DumpKeys == Tenants \X AgentIds \X DumpLimits

\* for (const key of dumpCache.keys()) if (key.startsWith(...)) dumpCache.delete(key)
InvalidatedDump(t, a) ==
  [k \in DumpKeys |-> IF k[1] = t /\ k[2] = a THEN NoEntry ELSE dumpCache[k]]

\* PUT after its last write: build the response, invalidate the dump cache
FinishPut(r) ==
  /\ req[r].pc = "finish"
  /\ dumpCache' = InvalidatedDump(req[r].tenant, req[r].body.agent_id)
  /\ req' = [req EXCEPT ![r] = IF req[r].key # NoKey THEN [req[r] EXCEPT !.pc = "store"]
                               ELSE Reply(req[r], PutResponse(req[r].ver))]
  /\ UNCHANGED <<gateVars, now, nticks, env, dbVars, wk>>

WriteResponse(rec) == IF rec.op = "put" THEN PutResponse(rec.ver) ELSE DeleteResponse(rec.ver)

\* await storeIdempotency(...); return reply.send(response)
StoreIdempotency(r) ==
  /\ req[r].pc = "store"
  /\ idem' = StoredIdem(req[r].tenant, req[r].key, req[r].body, WriteResponse(req[r]))
  /\ req' = [req EXCEPT ![r] = Reply(req[r], WriteResponse(req[r]))]
  /\ UNCHANGED <<gateVars, now, nticks, env, versions, entries, embeddings, jobs, quota, dumpCache, wk>>

\* the 6-hourly cleanup: DELETE FROM idempotency_keys WHERE expires_at < now()
SweepIdempotency ==
  /\ \E k \in DOMAIN idem : idem[k] # NoRow /\ idem[k].expires_at < now
  /\ idem' = [k \in DOMAIN idem |->
                IF idem[k] # NoRow /\ idem[k].expires_at < now THEN NoRow ELSE idem[k]]
  /\ UNCHANGED <<gateVars, now, nticks, env, versions, entries, embeddings, jobs, quota, dumpCache, req, wk>>

Tick(d) ==
  /\ nticks < MaxTicks
  /\ now' = now + d
  /\ nticks' = nticks + 1
  /\ UNCHANGED <<gateVars, env, dbVars, dumpCache, req, wk>>

\* -------------------------------------------------------------------- reads
Take(s, n) == SubSeq(s, 1, Min(n, Len(s)))

RECURSIVE Reverse(_)
Reverse(s) == IF s = <<>> THEN <<>> ELSE Reverse(Tail(s)) \o <<s[1]>>

\* the orders in which a statement without ORDER BY may return the rows of S
Orders(S) == {o \in [1..Cardinality(S) -> S] : \A i, j \in 1..Cardinality(S) : o[i] = o[j] => i = j}

RECURSIVE PathLess(_, _)
PathLess(p, q) ==
  IF q = <<>> THEN FALSE
  ELSE IF p = <<>> THEN TRUE
  ELSE IF p[1] = q[1] THEN PathLess(Tail(p), Tail(q))
  ELSE Rank(p[1]) < Rank(q[1])

\* ORDER BY path ASC over a set of paths
RECURSIVE SortPaths(_)
SortPaths(S) ==
  IF S = {} THEN <<>>
  ELSE LET m == CHOOSE p \in S : \A q \in S \ {p} : PathLess(p, q)
       IN <<m>> \o SortPaths(S \ {m})

\* the join without its tenant predicate
LatestVisibleAs(t, a) ==
  {versions[entries[k]] : k \in {x \in Triples : x[2] = a /\ entries[x] # 0
                                                /\ Visible(versions[entries[x]])}}

\* FROM entries e JOIN entry_versions ev ON ev.id = e.latest_version_id
\* WHERE e.tenant_id = t AND e.agent_id = a AND <visible>: the joined version rows
LatestVisible(t, a) ==
  {versions[entries[k]] : k \in {x \in Triples : x[1] = t /\ x[2] = a /\ entries[x] # 0
                                                /\ Visible(versions[entries[x]])}}

\* POST /v1/get
GetResponse(t, a, raw) ==
  LET np == normalizePath(raw)
      id == IF np.ok THEN entries[<<t, a, np.path>>] ELSE 0
      expired == versions[id].expires_at # NULL /\ versions[id].expires_at <= now
      deleted == versions[id].deleted_at # NULL
  IN IF ~np.ok THEN errorHandler(400, "INVALID_PATH")
     ELSE IF id = 0 THEN [NoResp EXCEPT !.status = 200, !.code = "ok", !.kind = "get"]
     ELSE IF expired \/ deleted THEN [NoResp EXCEPT !.status = 200, !.code = "ok", !.kind = "get"]
     ELSE [NoResp EXCEPT !.status = 200, !.code = "ok", !.kind = "get", !.found = TRUE,
                         !.path = np.path, !.value = versions[id].value_json,
                         !.version_id = id, !.created_at = versions[id].created_at,
                         !.expires_at = versions[id].expires_at]

HistoryRow(v) == [version_id |-> v.id, created_at |-> v.created_at, value |-> v.value_json,
                  expires_at |-> v.expires_at, deleted_at |-> v.deleted_at]

MapHistory(s) == [i \in 1..Len(s) |-> HistoryRow(s[i])]

\* a history that shows the visible versions only
HistoryResponseAs(t, a, raw, limit) ==
  LET np == normalizePath(raw)
  IN IF ~np.ok THEN errorHandler(400, "INVALID_PATH")
     ELSE [NoResp EXCEPT !.status = 200, !.code = "ok", !.kind = "history",
                         !.rows = [i \in 1..Len(Take(Reverse(SelectSeq(VersionsOf(t, a, np.path), Visible)), limit)) |->
                                     [version_id |-> Take(Reverse(SelectSeq(VersionsOf(t, a, np.path), Visible)), limit)[i].id,
                                      created_at |-> Take(Reverse(SelectSeq(VersionsOf(t, a, np.path), Visible)), limit)[i].created_at,
                                      value |-> Take(Reverse(SelectSeq(VersionsOf(t, a, np.path), Visible)), limit)[i].value_json,
                                      expires_at |-> Take(Reverse(SelectSeq(VersionsOf(t, a, np.path), Visible)), limit)[i].expires_at,
                                      deleted_at |-> Take(Reverse(SelectSeq(VersionsOf(t, a, np.path), Visible)), limit)[i].deleted_at]]]

\* POST /v1/history: ORDER BY created_at DESC LIMIT limit; created_at has microsecond
\* resolution, so the order of insertion is the order of created_at
HistoryResponse(t, a, raw, limit) ==
  LET np == normalizePath(raw)
  IN IF ~np.ok THEN errorHandler(400, "INVALID_PATH")
     ELSE [NoResp EXCEPT !.status = 200, !.code = "ok", !.kind = "history",
                         !.rows = MapHistory(Take(Reverse(VersionsOf(t, a, np.path)), limit))]

\* POST /v1/list: the items computed from the rows in the order the query returned them
RECURSIVE ListItems(_, _, _)
ListItems(rows, prefixWithSlash, seen) ==
  IF rows = <<>> THEN <<>>
  ELSE LET rest == Slice(rows[1], Len(prefixWithSlash))
           seg == SplitSlash(rest)[1]
           childPath == prefixWithSlash \o seg
       IN IF childPath \in seen THEN ListItems(Tail(rows), prefixWithSlash, seen)
          ELSE <<[path |-> childPath, type |-> IF Includes(rest, "/") THEN "dir" ELSE "file"]>>
               \o ListItems(Tail(rows), prefixWithSlash, seen \cup {childPath})

ListLike(prefix) ==
  escapeSqlLikeLiteral(IF prefix = <<"/">> THEN <<"/">> ELSE prefix \o <<"/">>) \o <<"%">>

ListMatches(t, a, prefix) ==
  {v.path : v \in {x \in LatestVisible(t, a) : Like(x.path, ListLike(prefix))}}

ListResponse(t, a, raw, rows) ==
  LET np == normalizePath(raw)
      prefixWithSlash == IF np.path = <<"/">> THEN <<"/">> ELSE np.path \o <<"/">>
  IN IF ~np.ok THEN errorHandler(400, "INVALID_PATH")
     ELSE [NoResp EXCEPT !.status = 200, !.code = "ok", !.kind = "list",
                         !.rows = ListItems(Take(rows, LIST_CAP), prefixWithSlash, {})]

\* POST /v1/glob: zod requires a leading '/', normalizeGlobPattern throws a plain Error
GlobResponse(t, a, raw) ==
  LET g == normalizeGlobPattern(raw)
  IN IF raw = <<>> \/ Len(raw) > MAX_PATH_LEN \/ ~StartsWith(raw, <<"/">>)
     THEN errorHandler(400, "VALIDATION_ERROR")
     ELSE IF ~g.ok THEN errorHandler(NULL, "")
     ELSE [NoResp EXCEPT !.status = 200, !.code = "ok", !.kind = "glob",
                         !.rows = Take(SortPaths({v.path : v \in
                                    {x \in LatestVisible(t, a) :
                                       Like(x.path, globToSqlLike(g.pattern))}}), LIST_CAP)]

\* POST /v1/search: the rows of the similarity query
SearchPattern(prefix) ==
  IF prefix = <<>> THEN <<"%">> ELSE escapeSqlLikeLiteral(normalizePath(prefix).path) \o <<"%">>

SearchMatches(t, a, prefix) ==
  {e.version_id : e \in
     {x \in embeddings :
        /\ x.tenant_id = t /\ x.agent_id = a
        /\ entries[<<x.tenant_id, x.agent_id, x.path>>] = x.version_id
        /\ Visible(versions[x.version_id])
        /\ Like(x.path, SearchPattern(prefix))}}

SearchRow(v) == [path |-> v.path, value |-> v.value_json, version_id |-> v.id,
                 created_at |-> v.created_at]

SearchResponse(rows, limit) ==
  [NoResp EXCEPT !.status = 200, !.code = "ok", !.kind = "search",
                 !.rows = [i \in 1..Min(limit, Len(rows)) |-> SearchRow(versions[rows[i]])]]

\* POST /v1/dump: the entries of the query, ORDER BY ev.created_at DESC LIMIT limit
RECURSIVE SortByIdDesc(_)
SortByIdDesc(S) ==
  IF S = {} THEN <<>>
  ELSE LET m == CHOOSE v \in S : \A w \in S : w.id <= v.id
       IN <<m>> \o SortByIdDesc(S \ {m})

DumpRow(v) == [path |-> v.path, value |-> v.value_json, version_id |-> v.id,
               created_at |-> v.created_at]

DumpEntries(t, a, limit) ==
  LET rows == Take(SortByIdDesc(LatestVisible(t, a)), limit)
  IN [i \in 1..Len(rows) |-> DumpRow(rows[i])]

DumpResponse(entriesSeq, cache) ==
  [NoResp EXCEPT !.status = 200, !.code = "ok", !.kind = "dump", !.rows = entriesSeq,
                 !.cache = cache]

\* getCachedDump: null when absent or older than DUMP_CACHE_TTL (and then deleted)
CacheFresh(k) == dumpCache[k] # NoEntry /\ ~(now - dumpCache[k].ts > DUMP_CACHE_TTL)

\* ------------------------------------------------------------- read actions
ReadArgs(a, path) == [agent_id |-> a, path |-> path]

Get(r, t, a, raw) ==
  /\ Free(r)
  /\ req' = [req EXCEPT ![r] = Reply(NewReq("get", t, NoKey, ReadArgs(a, raw)), GetResponse(t, a, raw))]
  /\ UNCHANGED <<gateVars, now, nticks, env, dbVars, dumpCache, wk>>

\* the body of a HISTORY request; limit 0 stands for an absent limit
HistoryArgs(a, path, limit) == [agent_id |-> a, path |-> path, limit |-> limit]

\* Body.parse: limit z.number().int().min(1).max(100).optional().default(20)
HistoryLimitOk(limit) == limit = 0 \/ (1 <= limit /\ limit <= 100)

HistoryLimit(limit) == IF limit = 0 THEN 20 ELSE limit

History(r, t, a, raw, limit) ==
  /\ Free(r)
  /\ req' = [req EXCEPT ![r] = Reply(NewReq("history", t, NoKey, HistoryArgs(a, raw, limit)),
                                     IF ~HistoryLimitOk(limit)
                                     THEN errorHandler(400, "VALIDATION_ERROR")
                                     ELSE HistoryResponse(t, a, raw, HistoryLimit(limit)))]
  /\ UNCHANGED <<gateVars, now, nticks, env, dbVars, dumpCache, wk>>

List(r, t, a, raw) ==
  /\ Free(r)
  /\ \E rows \in Orders(IF normalizePath(raw).ok THEN ListMatches(t, a, normalizePath(raw).path) ELSE {}) :
       req' = [req EXCEPT ![r] = Reply(NewReq("list", t, NoKey, ReadArgs(a, raw)),
                                       ListResponse(t, a, raw, rows))]
  /\ UNCHANGED <<gateVars, now, nticks, env, dbVars, dumpCache, wk>>

Glob(r, t, a, raw) ==
  /\ Free(r)
  /\ req' = [req EXCEPT ![r] = Reply(NewReq("glob", t, NoKey, ReadArgs(a, raw)), GlobResponse(t, a, raw))]
  /\ UNCHANGED <<gateVars, now, nticks, env, dbVars, dumpCache, wk>>

\* search: checkRateLimit, then incSearchQuota, Body.parse, the OPENAI_API_KEY test
SearchStart(r, t, a, prefix) ==
  /\ Free(r)
  /\ QuotaRow(t, todayUtc).searches < MaxSearches
  /\ LET old == QuotaRow(t, todayUtc)
         new == [old EXCEPT !.searches = old.searches + 1]
         rec == NewReq("search", t, NoKey, ReadArgs(a, prefix))
     IN /\ quota' = (quota \ {old}) \cup {new}
        /\ req' = [req EXCEPT ![r] =
                     IF new.searches > QUOTA_SEARCHES_PER_MINUTE * 60 * 24
                     THEN Reply(rec, errorHandler(429, "QUOTA_SEARCHES"))
                     ELSE IF ~env.OPENAI_API_KEY THEN Reply(rec, SearchResponse(<<>>, 0))
                     ELSE [rec EXCEPT !.pc = "query"]]
  /\ UNCHANGED <<gateVars, now, nticks, env, versions, entries, embeddings, jobs, idem, dumpCache, wk>>

\* search: await embedQuery(query), then the similarity query in the order of distance
SearchEmbed(r, res, limit) ==
  /\ req[r].pc = "query"
  /\ LET rec == req[r]
         prefix == rec.body.path
     IN IF res.kind # "ok"
        THEN req' = [req EXCEPT ![r] = Reply([rec EXCEPT !.upstream = res],
                                             setErrorHandler(embedQuery(res)))]
        ELSE IF prefix # <<>> /\ ~normalizePath(prefix).ok
             THEN req' = [req EXCEPT ![r] = Reply(rec, errorHandler(400, "INVALID_PATH"))]
        ELSE \E rows \in Orders(SearchMatches(rec.tenant, rec.body.agent_id, prefix)) :
               req' = [req EXCEPT ![r] = Reply(rec, SearchResponse(rows, limit))]
  /\ UNCHANGED <<gateVars, now, nticks, env, dbVars, dumpCache, wk>>

\* the provider answers the query's embedding or the request to it fails
SearchQuery(r, ok, limit) == SearchEmbed(r, IF ok THEN OkUpstream ELSE NetworkDown, limit)

\* dump: the cache lookup; a hit is the reply
DumpStart(r, t, a, limit) ==
  /\ Free(r)
  /\ LET k == <<t, a, limit>>
         rec == [NewReq("dump", t, NoKey, ReadArgs(a, <<>>)) EXCEPT !.data = k]
     IN IF CacheFresh(k)
        THEN /\ req' = [req EXCEPT ![r] = Reply(rec, [dumpCache[k].data EXCEPT !.cache = "HIT"])]
             /\ dumpCache' = dumpCache
        ELSE /\ req' = [req EXCEPT ![r] = [rec EXCEPT !.pc = "dumpQuery"]]
             /\ dumpCache' = [dumpCache EXCEPT ![k] = NoEntry]
  /\ UNCHANGED <<gateVars, now, nticks, env, dbVars, wk>>

\* dump: the query runs in the database
DumpQuery(r) ==
  /\ req[r].pc = "dumpQuery"
  /\ req' = [req EXCEPT ![r] = [req[r] EXCEPT !.pc = "dumpSet",
                 !.resp = DumpResponse(DumpEntries(req[r].tenant, req[r].body.agent_id, req[r].data[3]), "MISS")]]
  /\ UNCHANGED <<gateVars, now, nticks, env, dbVars, dumpCache, wk>>

\* dump: setCachedDump(cacheKey, response), then the reply
DumpSet(r) ==
  /\ req[r].pc = "dumpSet"
  /\ dumpCache' = [dumpCache EXCEPT ![req[r].data] = [data |-> req[r].resp, ts |-> now]]
  /\ req' = [req EXCEPT ![r] = Reply(req[r], req[r].resp)]
  /\ UNCHANGED <<gateVars, now, nticks, env, dbVars, wk>>

\* ------------------------------------------------------- embedding workers
OffWorker == [pc |-> "off", once |-> FALSE, job |-> 0, attempts |-> 0, wake |-> NULL,
              res |-> NoUpstream]

\* a claim that takes only jobs that have never been tried
ClaimableAs(j) == j.status = "queued" /\ j.attempts < 1

\* WHERE status='queued' AND attempts < MAX_ATTEMPTS
Claimable(j) == j.status = "queued" /\ j.attempts < MAX_ATTEMPTS

\* ORDER BY created_at ASC ... LIMIT 1: any of the oldest claimable rows
Oldest(S) == {j \in S : \A k \in S : j.created_at <= k.created_at}

SetJob(vid, status, last_error) ==
  {IF j.version_id = vid THEN [j EXCEPT !.status = status, !.last_error = last_error] ELSE j
     : j \in jobs}

\* runLoop(opts)
WorkerStart(w, once) ==
  /\ wk[w].pc = "off"
  /\ wk' = [wk EXCEPT ![w] = [OffWorker EXCEPT !.pc = "claim", !.once = once]]
  /\ UNCHANGED <<gateVars, now, nticks, env, dbVars, dumpCache, req>>

\* the claim statement: SELECT ... FOR UPDATE SKIP LOCKED LIMIT 1, UPDATE ... RETURNING
WorkerClaim(w) ==
  /\ wk[w].pc = "claim"
  /\ \E j \in Oldest({x \in jobs : Claimable(x)}) :
       /\ jobs' = (jobs \ {j}) \cup {[j EXCEPT !.status = "running", !.attempts = j.attempts + 1]}
       /\ wk' = [wk EXCEPT ![w] = [wk[w] EXCEPT !.pc = "embed", !.job = j.version_id,
                                                !.attempts = j.attempts + 1]]
  /\ UNCHANGED <<gateVars, now, nticks, env, versions, entries, embeddings, idem, quota, dumpCache, req>>

\* if (!jobs.length) { if (opts.once) return; ... }
WorkerIdleExit(w) ==
  /\ wk[w].pc = "claim"
  /\ wk[w].once
  /\ {x \in jobs : Claimable(x)} = {}
  /\ wk' = [wk EXCEPT ![w].pc = "exit"]
  /\ UNCHANGED <<gateVars, now, nticks, env, dbVars, dumpCache, req>>

\* SELECT the version (it exists: rows are never removed), then await embed(text) with
\* the provider's outcome res
WorkerEmbedText(w, res) ==
  /\ wk[w].pc = "embed"
  /\ wk' = [wk EXCEPT ![w].pc = IF res.kind = "ok" THEN "insert" ELSE "catch",
                       ![w].res = res]
  /\ UNCHANGED <<gateVars, now, nticks, env, dbVars, dumpCache, req>>

\* the provider answers or the request to it fails
WorkerEmbed(w, ok) == WorkerEmbedText(w, IF ok THEN OkUpstream ELSE NetworkDown)

\* String(err?.message || err) in the catch block of the loop: the error of embedText,
\* or of the final update that the database rejected
WorkerError(res) == IF res.kind = "ok" THEN StatusCheckViolation ELSE embedText(res)

WorkerInsertEmbedding(w) ==
  /\ wk[w].pc = "insert"
  /\ LET j == JobOf(wk[w].job)
     IN embeddings' = UpsertedEmbeddings(j.version_id, j.tenant_id, j.agent_id, j.path)
  /\ wk' = [wk EXCEPT ![w].pc = "tokens"]
  /\ UNCHANGED <<gateVars, now, nticks, env, versions, entries, jobs, idem, quota, dumpCache, req>>

\* Math.ceil(text.length / 4) for "path:<p>\nvalue:<v>\ntags:[]" with a one-digit value
approxTokens(path) == (5 + Len(path) + 7 + 1 + 6 + 2 + 3) \div 4

WorkerTokens(w) ==
  /\ wk[w].pc = "tokens"
  /\ LET j == JobOf(wk[w].job)
         old == QuotaRow(j.tenant_id, todayUtc)
     IN quota' = (quota \ {old}) \cup {[old EXCEPT !.embed_tokens = @ + approxTokens(j.path)]}
  /\ wk' = [wk EXCEPT ![w].pc = "finish"]
  /\ UNCHANGED <<gateVars, now, nticks, env, versions, entries, embeddings, jobs, idem, dumpCache, req>>

\* where the loop goes after a job: return in once mode, else the next claim
AfterJob(rec) == [rec EXCEPT !.pc = IF rec.once THEN "exit" ELSE "claim", !.res = NoUpstream]

\* UPDATE embedding_jobs SET status='done', last_error=NULL: embedding_jobs_status_check
\* rejects the value, the statement throws and the catch block runs
WorkerFinish(w) ==
  /\ wk[w].pc = "finish"
  /\ IF "done" \in JobStatusCheck
     THEN /\ jobs' = SetJob(wk[w].job, "done", "")
          /\ wk' = [wk EXCEPT ![w] = AfterJob(wk[w])]
     ELSE /\ jobs' = jobs
          /\ wk' = [wk EXCEPT ![w].pc = "catch"]
  /\ UNCHANGED <<gateVars, now, nticks, env, versions, entries, embeddings, idem, quota, dumpCache, req>>

\* catch: status = isFinal ? 'failed' : 'queued', last_error; then the backoff sleep
WorkerCatch(w) ==
  /\ wk[w].pc = "catch"
  /\ LET isFinal == wk[w].attempts >= MAX_ATTEMPTS
     IN /\ jobs' = SetJob(wk[w].job, IF isFinal THEN "failed" ELSE "queued",
                         WorkerError(wk[w].res))
        /\ wk' = [wk EXCEPT ![w] =
                    IF ~isFinal /\ ~wk[w].once
                    THEN [wk[w] EXCEPT !.pc = "backoff", !.res = NoUpstream,
                                       !.wake = now + Min(2 ^ wk[w].attempts, 32)]
                    ELSE AfterJob(wk[w])]
  /\ UNCHANGED <<gateVars, now, nticks, env, versions, entries, embeddings, idem, quota, dumpCache, req>>

\* the setTimeout of the backoff has elapsed
WorkerWake(w) ==
  /\ wk[w].pc = "backoff"
  /\ now >= wk[w].wake
  /\ wk' = [wk EXCEPT ![w] = [wk[w] EXCEPT !.pc = "claim", !.wake = NULL]]
  /\ UNCHANGED <<gateVars, now, nticks, env, dbVars, dumpCache, req>>

\* POST /v1/admin/embeddings/requeue: the rows of the tenant with the status, at most limit
AdminRequeue(t, status, limit) ==
  /\ \E j \in jobs : j.tenant_id = t /\ j.status = status
  /\ \E rows \in Orders({j.version_id : j \in {x \in jobs : x.tenant_id = t /\ x.status = status}}) :
       jobs' = {IF \E i \in 1..Min(limit, Len(rows)) : rows[i] = j.version_id
                THEN [j EXCEPT !.status = "queued", !.last_error = ""] ELSE j : j \in jobs}
  /\ UNCHANGED <<gateVars, now, nticks, env, versions, entries, embeddings, idem, quota, dumpCache, req, wk>>

\* -------------------------------------------------- gates before a handler
\* the window of the token bucket and of the rate limiter, in seconds (60_000 ms)
WINDOW_SECONDS == 60

AUTH_CACHE_TTL == 60

LOCKOUT_MAX_ATTEMPTS == 10

LOCKOUT_WINDOW == 900

Ips == {"ip1", "ip2"}

\* api key ids: "w" holds the default scopes, "ro" only memory:read, "x" has no row
ApiKeyIds == {"w", "ro", "x"}

Secrets == {"s", "bad"}

Bearers == [id : ApiKeyIds, secret : Secrets]

Endpoints == {"put", "delete"}

NoKeyRow == [id |-> "", tenant_id |-> "", secret_hash |-> "", scopes_json |-> {}, revoked_at |-> NULL]

\* the rows the operator created with create-key: secret "s", hashed
ApiKeyRows ==
  [id \in ApiKeyIds |->
     IF id = "w" THEN [id |-> "w", tenant_id |-> "T1", secret_hash |-> "s",
                       scopes_json |-> {"memory:read", "memory:write", "search:read"},
                       revoked_at |-> NULL]
     ELSE IF id = "ro" THEN [id |-> "ro", tenant_id |-> "T1", secret_hash |-> "s",
                             scopes_json |-> {"memory:read"}, revoked_at |-> NULL]
     ELSE NoKeyRow]

NoBucket == [tokens |-> NULL, lastRefillMs |-> NULL]

NoFailed == [count |-> 0, firstFailAt |-> NULL]

NoCtx == [tenantId |-> "", apiKeyId |-> "", scopes |-> {}]

NoCachedAuth == [ctx |-> NoCtx, expiresAt |-> NULL]

NoLimit == [count |-> 0, resetAt |-> NULL]

\* a bucket that denies only when it holds no token at all (tokens <= 0)
checkTokenBucketAs(key, limit) ==
  LET bucket == IF buckets[key] = NoBucket
                THEN [tokens |-> limit * WINDOW_SECONDS, lastRefillMs |-> now]
                ELSE buckets[key]
      elapsedMs == Max(0, now - bucket.lastRefillMs)
      refilled == elapsedMs * limit
      tokens == Min(limit * WINDOW_SECONDS, bucket.tokens + refilled)
  IN IF tokens <= 0
     THEN [allowed |-> FALSE, bucket |-> [tokens |-> tokens, lastRefillMs |-> now]]
     ELSE [allowed |-> TRUE,
           bucket |-> [tokens |-> tokens - WINDOW_SECONDS, lastRefillMs |-> now]]

\* checkTokenBucket(key, limit): tokens are counted in 1/WINDOW_SECONDS of a token, so
\* that the refill of limit / windowMs per millisecond is limit units per second
checkTokenBucket(key, limit) ==
  LET bucket == IF buckets[key] = NoBucket
                THEN [tokens |-> limit * WINDOW_SECONDS, lastRefillMs |-> now]
                ELSE buckets[key]
      elapsedMs == Max(0, now - bucket.lastRefillMs)
      refilled == elapsedMs * limit
      tokens == Min(limit * WINDOW_SECONDS, bucket.tokens + refilled)
  IN IF tokens < WINDOW_SECONDS
     THEN [allowed |-> FALSE, bucket |-> [tokens |-> tokens, lastRefillMs |-> now]]
     ELSE [allowed |-> TRUE,
           bucket |-> [tokens |-> tokens - WINDOW_SECONDS, lastRefillMs |-> now]]

\* checkLockout(keyId): the entry as the call leaves it, and its answer
checkLockout(keyId) ==
  LET entry == failedAttempts[keyId]
  IN IF entry = NoFailed THEN [locked |-> FALSE, entry |-> entry]
     ELSE IF now - entry.firstFailAt > LOCKOUT_WINDOW THEN [locked |-> FALSE, entry |-> NoFailed]
     ELSE [locked |-> entry.count >= LOCKOUT_MAX_ATTEMPTS, entry |-> entry]

\* recordFailure(keyId)
recordFailure(keyId) ==
  LET entry == failedAttempts[keyId]
  IN IF entry = NoFailed \/ now - entry.firstFailAt > LOCKOUT_WINDOW
     THEN [count |-> 1, firstFailAt |-> now]
     ELSE [entry EXCEPT !.count = @ + 1]

\* getCachedAuth(bearerToken): the entry as the call leaves it
getCachedAuth(bearer) ==
  LET entry == authCache[bearer]
  IN IF entry = NoCachedAuth THEN NoCachedAuth
     ELSE IF now > entry.expiresAt THEN NoCachedAuth
     ELSE entry

\* requireScope(ctx, scope)
requireScope(ctx, scope) == scope \in ctx.scopes \/ "admin" \in ctx.scopes

\* a limiter that denies only above the limit (count > limit)
checkRateLimitAs(tenantId, endpoint, limit) ==
  LET old == limits[<<tenantId, endpoint>>]
      entry == IF old = NoLimit \/ old.resetAt <= now
               THEN [count |-> 0, resetAt |-> now + WINDOW_SECONDS]
               ELSE old
  IN IF entry.count > limit
     THEN [allowed |-> FALSE, remaining |-> 0, entry |-> entry]
     ELSE [allowed |-> TRUE, remaining |-> limit - (entry.count + 1),
           entry |-> [entry EXCEPT !.count = @ + 1]]

\* checkRateLimit(tenantId, endpoint, maxRequests)
checkRateLimit(tenantId, endpoint, limit) ==
  LET old == limits[<<tenantId, endpoint>>]
      entry == IF old = NoLimit \/ old.resetAt <= now
               THEN [count |-> 0, resetAt |-> now + WINDOW_SECONDS]
               ELSE old
  IN IF entry.count >= limit
     THEN [allowed |-> FALSE, remaining |-> 0, entry |-> entry]
     ELSE [allowed |-> TRUE, remaining |-> limit - (entry.count + 1),
           entry |-> [entry EXCEPT !.count = @ + 1]]

\* Body.parse(req.body): agent_id z.string().min(1)
BodyOk(body) == body.agent_id # ""

\* a request arrives: the onRequest hook runs the pre-auth bucket of its address
Arrive(r, op, ip, auth, k, b) ==
  /\ Free(r)
  /\ Len(versions) + PendingInserts < MaxVersions
  /\ \A id \in ApiKeyIds : Len(failLog[id]) < MaxFailures
  /\ LET rec == [NewReq(op, "", k, b) EXCEPT !.ip = ip, !.auth = auth]
         res == checkTokenBucket(ip, env.PREAUTH_RATE_LIMIT_PER_MINUTE)
     IN IF env.PREAUTH_RATE_LIMIT_PER_MINUTE <= 0
        THEN /\ req' = [req EXCEPT ![r] = [rec EXCEPT !.pc = "auth"]]
             /\ buckets' = buckets
        ELSE /\ buckets' = [buckets EXCEPT ![ip] = res.bucket]
             /\ req' = [req EXCEPT ![r] =
                          IF res.allowed THEN [rec EXCEPT !.pc = "auth"]
                          ELSE Reply(rec, errorHandler(429, "PREAUTH_RATE_LIMIT_EXCEEDED"))]
  /\ UNCHANGED <<now, nticks, env, dbVars, dumpCache, wk, api_keys, failedAttempts, failLog,
                 authCache, limits>>

\* authenticate(req) up to its first await: parseBearer, checkLockout, getCachedAuth
AuthStart(r) ==
  /\ req[r].pc = "auth"
  /\ LET rec == req[r]
         lock == checkLockout(rec.auth.id)
         cached == getCachedAuth(rec.auth)
     IN IF rec.auth = NoAuth
        THEN /\ req' = [req EXCEPT ![r] = Reply(rec, errorHandler(401, "UNAUTHORIZED"))]
             /\ UNCHANGED <<failedAttempts, authCache>>
        ELSE /\ failedAttempts' = [failedAttempts EXCEPT ![rec.auth.id] = lock.entry]
             /\ IF lock.locked
                THEN /\ req' = [req EXCEPT ![r] = Reply(rec, errorHandler(429, "AUTH_LOCKOUT"))]
                     /\ authCache' = authCache
                ELSE /\ authCache' = [authCache EXCEPT ![rec.auth] = cached]
                     /\ req' = [req EXCEPT ![r] =
                                  IF cached # NoCachedAuth
                                  THEN [rec EXCEPT !.pc = "handler", !.data = cached.ctx,
                                                   !.tenant = cached.ctx.tenantId]
                                  ELSE [rec EXCEPT !.pc = "authDb"]]
  /\ UNCHANGED <<now, nticks, env, dbVars, dumpCache, wk, api_keys, buckets, failLog, limits>>

\* a failed attempt: recordFailure, then 401
AuthFailed(r) ==
  /\ failedAttempts' = [failedAttempts EXCEPT ![req[r].auth.id] = recordFailure(req[r].auth.id)]
  /\ failLog' = [failLog EXCEPT ![req[r].auth.id] = Append(@, now)]
  /\ req' = [req EXCEPT ![r] = Reply(req[r], errorHandler(401, "UNAUTHORIZED"))]
  /\ authCache' = authCache

\* SELECT ... FROM api_keys WHERE id = parsed.id
AuthLookup(r) ==
  /\ req[r].pc = "authDb"
  /\ LET row == api_keys[req[r].auth.id]
     IN IF row = NoKeyRow \/ row.revoked_at # NULL
        THEN AuthFailed(r)
        ELSE /\ req' = [req EXCEPT ![r] = [req[r] EXCEPT !.pc = "argon", !.data = row]]
             /\ UNCHANGED <<failedAttempts, failLog, authCache>>
  /\ UNCHANGED <<now, nticks, env, dbVars, dumpCache, wk, api_keys, buckets, limits>>

\* argon2.verify(row.secret_hash, parsed.secret), setCachedAuth
AuthVerify(r) ==
  /\ req[r].pc = "argon"
  /\ LET row == req[r].data
         ctx == [tenantId |-> row.tenant_id, apiKeyId |-> row.id, scopes |-> row.scopes_json]
     IN IF row.secret_hash # req[r].auth.secret
        THEN AuthFailed(r)
        ELSE /\ authCache' = [authCache EXCEPT ![req[r].auth] =
                                [ctx |-> ctx, expiresAt |-> now + AUTH_CACHE_TTL]]
             /\ req' = [req EXCEPT ![r] = [req[r] EXCEPT !.pc = "handler", !.data = ctx,
                                                         !.tenant = ctx.tenantId]]
             /\ UNCHANGED <<failedAttempts, failLog>>
  /\ UNCHANGED <<now, nticks, env, dbVars, dumpCache, wk, api_keys, buckets, limits>>

\* the operator revokes a key: UPDATE api_keys SET revoked_at = now() WHERE id = id
RevokeKey(id) ==
  /\ api_keys[id] # NoKeyRow
  /\ api_keys[id].revoked_at = NULL
  /\ api_keys' = [api_keys EXCEPT ![id].revoked_at = now]
  /\ UNCHANGED <<now, nticks, env, dbVars, dumpCache, req, wk, buckets, failedAttempts, failLog,
                 authCache, limits>>

\* the handler of PUT and DELETE after authenticate, up to its first await:
\* requireScope, checkRateLimit, Body.parse, getIdempotencyKey
HandleWrite(r) ==
  /\ req[r].pc = "handler"
  /\ LET rec == [req[r] EXCEPT !.data = <<>>]
         rate == checkRateLimit(rec.tenant, rec.op, env.RATE_LIMIT_REQUESTS_PER_MINUTE)
     IN IF ~requireScope(req[r].data, "memory:write")
        THEN /\ req' = [req EXCEPT ![r] = Reply(rec, errorHandler(403, ""))]
             /\ limits' = limits
        ELSE /\ limits' = [limits EXCEPT ![<<rec.tenant, rec.op>>] = rate.entry]
             /\ req' = [req EXCEPT ![r] =
                          IF ~rate.allowed
                          THEN Reply(rec, errorHandler(429, "RATE_LIMIT_EXCEEDED"))
                          ELSE IF ~BodyOk(rec.body)
                               THEN Reply(rec, errorHandler(400, "VALIDATION_ERROR"))
                          ELSE IF rec.key # NoKey THEN [rec EXCEPT !.pc = "idem"]
                          ELSE Proceed(rec)]
  /\ UNCHANGED <<now, nticks, env, dbVars, dumpCache, wk, api_keys, buckets, failedAttempts,
                 failLog, authCache>>

\* --------------------------------------------------------- specifications
\* the state after the migrations and the process start: empty tables, empty caches
InitNode(apiKeys, preauth, rate, nodeEnvs) ==
  /\ now = 0
  /\ nticks = 0
  /\ env \in [OPENAI_API_KEY : apiKeys,
              PREAUTH_RATE_LIMIT_PER_MINUTE : preauth,
              RATE_LIMIT_REQUESTS_PER_MINUTE : rate,
              NODE_ENV : nodeEnvs]
  /\ versions = <<>>
  /\ entries = [k \in Triples |-> 0]
  /\ embeddings = {}
  /\ jobs = {}
  /\ idem = [k \in Tenants \X Keys |-> NoRow]
  /\ quota = {}
  /\ dumpCache = [k \in DumpKeys |-> NoEntry]
  /\ req = [r \in Slots |-> IdleReq]
  /\ wk = [w \in Workers |-> OffWorker]
  /\ api_keys = ApiKeyRows
  /\ buckets = [ip \in Ips |-> NoBucket]
  /\ failedAttempts = [id \in ApiKeyIds |-> NoFailed]
  /\ failLog = [id \in ApiKeyIds |-> <<>>]
  /\ authCache = [b \in Bearers |-> NoCachedAuth]
  /\ limits = [k \in Tenants \X Endpoints |-> NoLimit]

\* NODE_ENV: z.string().optional().default("development")
InitEnv(apiKeys, preauth, rate) == InitNode(apiKeys, preauth, rate, {"development"})

\* the limits of the environment at their defaults
InitWith(apiKeys) ==
  InitEnv(apiKeys, {PREAUTH_RATE_LIMIT_PER_MINUTE}, {RATE_LIMIT_REQUESTS_PER_MINUTE})

Quiet == \A r \in Slots : Free(r)

\* the statements of a PUT or DELETE in flight
WriteStep(r) ==
  \/ IncWriteQuota(r)
  \/ InsertVersion(r)
  \/ UpsertEntry(r)
  \/ FinishPut(r)

\* the statements of a PUT or DELETE that carries an Idempotency-Key
KeyStep(r) ==
  \/ IdemLookup(r)
  \/ StoreIdempotency(r)

\* Spec: concurrent writers on one triple, with and without an idempotency key
ConcPuts == PutBodies({P_x}, Values, {0}, {FALSE})

ConcDeletes == DeleteBodies({P_x})

Init == InitWith({FALSE})

Next ==
  \/ \E r \in Slots, k \in {NoKey} \cup Keys, b \in ConcPuts, adm \in BOOLEAN :
       StartWrite(r, "put", "T1", k, b, adm)
  \/ \E r \in Slots, k \in {NoKey} \cup Keys, b \in ConcDeletes, adm \in BOOLEAN :
       StartWrite(r, "delete", "T1", k, b, adm)
  \/ \E r \in Slots : Get(r, "T1", "a", P_x)
  \/ \E r \in Slots : History(r, "T1", "a", P_x, 20)
  \/ \E r \in Slots : WriteStep(r)
  \/ \E r \in Slots : KeyStep(r)

Spec == Init /\ [][Next]_vars

\* ------------------------------------------------------------------ claims
\* the id of the newest version row of a triple, 0 when it has none
NewestId(k) ==
  LET rows == VersionsOf(k[1], k[2], k[3])
  IN IF rows = <<>> THEN 0 ELSE rows[Len(rows)].id

\* C2: once all concurrent PUT/DELETE requests on a triple have completed, the latest
\* pointer of the triple references its newest version row (the one inserted last).
C2_LatestIsNewest ==
  Quiet => \A k \in Triples : entries[k] = NewestId(k)

\* C3: no read observes a version row whose triple has no latest pointer or a pointer
\* to an older version: the newest version a HISTORY returned is never newer than
\* the latest pointer of its triple.
C3_ReadersSeeAtomicWrite ==
  \A r \in Slots :
    (req[r].pc = "done" /\ req[r].op = "history" /\ req[r].resp.status = 200
       /\ req[r].resp.rows # <<>>)
    => entries[<<req[r].tenant, req[r].body.agent_id, normalizePath(req[r].body.path).path>>]
         >= req[r].resp.rows[1].version_id

SameCall(r1, r2) ==
  /\ req[r1].op \in {"put", "delete"}
  /\ req[r1].op = req[r2].op
  /\ req[r1].tenant = req[r2].tenant
  /\ req[r1].key # NoKey
  /\ req[r1].key = req[r2].key
  /\ req[r1].body = req[r2].body

\* C9: however the requests carrying (tenant, K, B) interleave, at most one version row
\* is inserted for K and every such request returns the response stored for K.
C9_RetriesSafe ==
  \A r1, r2 \in Slots :
    (r1 # r2 /\ SameCall(r1, r2)) =>
      /\ ~(req[r1].ver.id # 0 /\ req[r2].ver.id # 0)
      /\ (req[r1].pc = "done" /\ req[r2].pc = "done"
            /\ req[r1].resp.status = 200 /\ req[r2].resp.status = 200)
         => req[r1].resp = req[r2].resp

NotExpired(v) == v.expires_at = NULL \/ v.expires_at > now

\* C1: after any finite sequence of PUT and DELETE operations on a triple has completed,
\* GET returns the value of the most recently created version of the triple when that
\* version is neither a tombstone nor expired, and found:false otherwise.
C1_GetReturnsNewest ==
  Quiet =>
    \A k \in Triples :
      LET n == NewestId(k)
          g == GetResponse(k[1], k[2], k[3])
      IN IF n # 0 /\ versions[n].deleted_at = NULL /\ NotExpired(versions[n])
         THEN g.found /\ g.version_id = n /\ g.value = versions[n].value_json
         ELSE ~g.found

\* the triple a completed write addressed
TripleOf(r) == <<req[r].tenant, req[r].body.agent_id, normalizePath(req[r].body.path).path>>

\* a write that completed with 200 and whose version is still the newest of its triple
LastWrite(r, op) ==
  /\ req[r].pc = "done"
  /\ req[r].op = op
  /\ req[r].resp.status = 200
  /\ req[r].resp.version_id = NewestId(TripleOf(r))

\* C6: once DELETE(P) has completed and no later version of P exists, GET(P) yields
\* found:false; once a subsequent PUT(P) has completed, GET(P) finds the new version.
C6_TombstoneShadows ==
  \A r \in Slots :
    LET k == TripleOf(r)
        g == GetResponse(k[1], k[2], k[3])
    IN /\ LastWrite(r, "delete") => ~g.found
       /\ (LastWrite(r, "put") /\ NotExpired(versions[req[r].resp.version_id]))
            => (g.found /\ g.version_id = req[r].resp.version_id)

\* ------------------------------------------------------------------------
\* SpecIdem: one client retrying writes under an Idempotency-Key, one request at a
\* time, while the clock advances past the 24 hours of a record and the sweeper runs
IdemPuts == PutBodies({P_x}, Values, {0}, {FALSE})

IdemDeletes == DeleteBodies({P_x})

IdemTicks == {1, DAY_SECONDS}

InitIdem == InitWith({FALSE})

NextIdem ==
  \/ \E r \in Slots, k \in Keys, b \in IdemPuts, adm \in BOOLEAN :
       Quiet /\ StartWrite(r, "put", "T1", k, b, adm)
  \/ \E r \in Slots, k \in Keys, b \in IdemDeletes, adm \in BOOLEAN :
       Quiet /\ StartWrite(r, "delete", "T1", k, b, adm)
  \/ \E r \in Slots : WriteStep(r)
  \/ \E r \in Slots : KeyStep(r)
  \/ \E r \in Slots : IdemDeleteExpired(r)
  \/ \E d \in IdemTicks : Tick(d)
  \/ SweepIdempotency

SpecIdem == InitIdem /\ [][NextIdem]_vars

TtlPuts == PutBodies({P_dy}, {1}, Ttls, {TRUE})

P_d == <<"/", "d">>

G_d == <<"/", "d", "/", "*">>

TtlTicks == {1, DUMP_CACHE_TTL + 1}

\* the statements of a searchable PUT after its upsert
EmbedStep(r) ==
  \/ EmbedInline(r, TRUE)
  \/ InsertEmbedding(r)
  \/ InsertJobDone(r)
  \/ EnqueueJob(r)

\* a read request of tenant t: its first (for GET, HISTORY, LIST, GLOB its only) step
StartRead(r, t, glob) ==
  \/ Get(r, t, "a", P_dy)
  \/ History(r, t, "a", P_dy, 20)
  \/ List(r, t, "a", P_d)
  \/ Glob(r, t, "a", glob)
  \/ SearchStart(r, t, "a", P_d)
  \/ \E limit \in DumpLimits : DumpStart(r, t, "a", limit)

ReadStep(r) ==
  \/ SearchQuery(r, TRUE, 10)
  \/ DumpQuery(r)
  \/ DumpSet(r)

InitTtl == InitWith({TRUE})

NextTtl ==
  \/ \E b \in TtlPuts : Quiet /\ StartWrite(1, "put", "T1", NoKey, b, TRUE)
  \/ Quiet /\ StartRead(2, "T1", G_d)
  \/ \E r \in Slots : WriteStep(r)
  \/ \E r \in Slots : EmbedStep(r)
  \/ \E r \in Slots : ReadStep(r)
  \/ \E d \in TtlTicks : Tick(d)

SpecTtl == InitTtl /\ [][NextTtl]_vars

\* the versions a response of a read endpoint shows, by id (LIST and GLOB answer
\* with paths: the version is the one the path's latest pointer references)
ShownVersions(rec) ==
  IF rec.op = "get" THEN (IF rec.resp.found THEN {rec.resp.version_id} ELSE {})
  ELSE IF rec.op \in {"dump", "search"}
       THEN {rec.resp.rows[i].version_id : i \in 1..Len(rec.resp.rows)}
  ELSE IF rec.op = "glob"
       THEN {entries[<<rec.tenant, rec.body.agent_id, rec.resp.rows[i]>>] : i \in 1..Len(rec.resp.rows)}
  ELSE IF rec.op = "list"
       THEN {entries[k] : k \in {x \in Triples :
                x[1] = rec.tenant /\ x[2] = rec.body.agent_id /\ entries[x] # 0
                /\ \E i \in 1..Len(rec.resp.rows) :
                     x[3] = rec.resp.rows[i].path \/ StartsWith(x[3], rec.resp.rows[i].path \o <<"/">>)}}
  ELSE {}

\* a read of slot r takes its data in this step: the query of a DUMP miss, the cache
\* lookup of a DUMP hit, the one step of the other reads
Answers(r) ==
  /\ req'[r] # req[r]
  /\ req[r].pc # "dumpSet"
  /\ req'[r].pc \in {"done", "dumpSet"}
  /\ req'[r].resp.status = 200

\* C7: no response of GET, LIST, GLOB, DUMP or SEARCH shows a version whose
\* expires_at <= now when the response is taken.
C7_ExpiredHidden ==
  [][\A r \in Slots :
       Answers(r) => \A id \in ShownVersions(req'[r]) :
                       versions[id].expires_at = NULL \/ versions[id].expires_at > now]_vars

\* ------------------------------------------------------------------------
\* SpecTenant: tenant T1 writes and deletes /d/y, tenant T2 writes /x, and both read
\* /d/y, /d, /* and the dump of agent a, one request at a time (writes in slot 1,
\* reads in slot 2); OPENAI_API_KEY is configured, so versions get embeddings
G_all == <<"/", "*">>

InitTenant == InitWith({TRUE})

NextTenant ==
  \/ \E b \in PutBodies({P_dy}, Values, {0}, {TRUE}) :
       Quiet /\ StartWrite(1, "put", "T1", NoKey, b, TRUE)
  \/ \E b \in DeleteBodies({P_dy}) : Quiet /\ StartWrite(1, "delete", "T1", NoKey, b, TRUE)
  \/ \E b \in PutBodies({P_x}, {1}, {0}, {TRUE}) :
       Quiet /\ StartWrite(1, "put", "T2", NoKey, b, TRUE)
  \/ \E t \in Tenants : Quiet /\ StartRead(2, t, G_all)
  \/ \E r \in Slots : WriteStep(r)
  \/ \E r \in Slots : EmbedStep(r)
  \/ \E r \in Slots : ReadStep(r)

SpecTenant == InitTenant /\ [][NextTenant]_vars

\* the tenant has written a version at the path, or (for a LIST item) below it
WrittenBy(t, a, p) ==
  \E i \in VersionIds :
    /\ versions[i].tenant_id = t
    /\ versions[i].agent_id = a
    /\ versions[i].path = p \/ StartsWith(versions[i].path, p \o <<"/">>)

\* everything a response carries was written under the tenant of the request
OwnDataOnly(rec) ==
  LET rows == rec.resp.rows
  IN IF rec.op = "get" THEN rec.resp.found => versions[rec.resp.version_id].tenant_id = rec.tenant
     ELSE IF rec.op \in {"history", "search", "dump"}
          THEN \A i \in 1..Len(rows) : versions[rows[i].version_id].tenant_id = rec.tenant
     ELSE IF rec.op = "glob"
          THEN \A i \in 1..Len(rows) : WrittenBy(rec.tenant, rec.body.agent_id, rows[i])
     ELSE IF rec.op = "list"
          THEN \A i \in 1..Len(rows) : WrittenBy(rec.tenant, rec.body.agent_id, rows[i].path)
     ELSE TRUE

\* C4: data written under one tenant is never returned to another: every response
\* carries only data of the requesting tenant, and a tenant that wrote nothing at or
\* below /d gets found:false from GET and no rows from LIST, GLOB /d/.. and SEARCH
\* whatever the other tenant stored there.
C4_TenantIsolation ==
  \A r \in Slots :
    (req[r].pc = "done" /\ req[r].resp.status = 200)
    => /\ OwnDataOnly(req[r])
       /\ (req[r].tenant = "T2" /\ req[r].op \in {"get", "list", "search", "history"})
            => (~req[r].resp.found /\ req[r].resp.rows = <<>>)

\* T1 holds a visible, embedded version at /d/y, T2 wrote /x after it, and T2's
\* GLOB /* (taken after T2's write) came back with /x alone
C4_OtherTenantSeesNothing ==
  /\ entries[<<"T1", "a", P_dy>>] # 0
  /\ Visible(versions[entries[<<"T1", "a", P_dy>>]])
  /\ \E e \in embeddings : e.version_id = entries[<<"T1", "a", P_dy>>]
  /\ entries[<<"T2", "a", P_x>>] > entries[<<"T1", "a", P_dy>>]
  /\ req[2].pc = "done" /\ req[2].tenant = "T2" /\ req[2].op = "glob"
  /\ req[2].resp.status = 200
  /\ req[2].resp.rows = <<P_x>>

\* ------------------------------------------------------------------------
\* SpecOnce: a searchable PUT without OPENAI_API_KEY queues a job, and the workers
\* are run in once mode, each at most one time, with an embedder that succeeds
JobPuts == PutBodies({P_x}, {1}, {0}, {TRUE})

WorkerStep(w, oks) ==
  \/ WorkerClaim(w)
  \/ WorkerIdleExit(w)
  \/ \E ok \in oks : WorkerEmbed(w, ok)
  \/ WorkerInsertEmbedding(w)
  \/ WorkerTokens(w)
  \/ WorkerFinish(w)
  \/ WorkerCatch(w)

InitOnce == InitWith({FALSE})

NextOnce ==
  \/ \E r \in Slots, b \in JobPuts : Quiet /\ StartWrite(r, "put", "T1", NoKey, b, TRUE)
  \/ \E r \in Slots : WriteStep(r)
  \/ \E r \in Slots : EnqueueJob(r)
  \/ \E w \in Workers : WorkerStart(w, TRUE)
  \/ \E w \in Workers : WorkerStep(w, {TRUE})

SpecOnce == InitOnce /\ [][NextOnce]_vars

\* the workers that claimed the job of a version
ClaimedBy(vid) == {w \in Workers : wk[w].job = vid}

\* C10: when workers run concurrently in once mode, a queued job is claimed and
\* processed by one worker only, and once its embedding has been written and the
\* workers have returned the job is finished (not queued, running or failed) with
\* attempts = 1.
C10_WorkerExclusivity ==
  \A j \in jobs :
    /\ Cardinality(ClaimedBy(j.version_id)) <= 1
    /\ ((\A w \in Workers : wk[w].pc = "exit")
          /\ (\E e \in embeddings : e.version_id = j.version_id))
       => (j.attempts = 1 /\ j.status \notin {"queued", "running", "failed"})

\* ------------------------------------------------------------------------
\* SpecJobs: everything that runs against the tables at once: PUT and DELETE of /x with
\* and without an Idempotency-Key (so retries are replayed), one request at a time,
\* a worker in once or in loop mode with an embedder that succeeds or fails, the
\* backoff, admin requeue
JobTicks == {16}

JobStatuses == {"failed", "running"}

InitJobs == InitWith({FALSE})

NextJobs ==
  \/ \E k \in {NoKey} \cup Keys, b \in JobPuts : Quiet /\ StartWrite(1, "put", "T1", k, b, TRUE)
  \/ \E k \in {NoKey} \cup Keys, b \in DeleteBodies({P_x}) :
       Quiet /\ StartWrite(1, "delete", "T1", k, b, TRUE)
  \/ \E r \in Slots : WriteStep(r)
  \/ \E r \in Slots : KeyStep(r)
  \/ \E r \in Slots : EnqueueJob(r)
  \/ \E once \in BOOLEAN : WorkerStart(1, once)
  \/ WorkerStep(1, BOOLEAN)
  \/ WorkerWake(1)
  \/ \E status \in JobStatuses : AdminRequeue("T1", status, 100)
  \/ \E d \in JobTicks : Tick(d)

SpecJobs == InitJobs /\ [][NextJobs]_vars

\* C5: no step of any operation (PUT, DELETE, idempotent replay, embedding worker,
\* admin requeue) removes or changes a version row: the table only grows at its end,
\* so the number of versions of a triple never decreases.
C5_AppendOnly ==
  [][/\ Len(versions') >= Len(versions)
     /\ SubSeq(versions', 1, Len(versions)) = versions]_vars

\* a PUT and a DELETE wrote versions, the last write request was a retry replayed
\* from its record (its version is not the newest), a worker wrote an embedding, and
\* a job claimed before was requeued by the admin route
C5_AllOperationsRan ==
  /\ Len(versions) >= 2
  /\ \E i \in VersionIds : versions[i].deleted_at # NULL
  /\ \E i \in VersionIds : versions[i].deleted_at = NULL
  /\ req[1].pc = "done" /\ req[1].key # NoKey /\ req[1].resp.status = 200
  /\ req[1].resp.version_id < Len(versions)
  /\ embeddings # {}
  /\ \E j \in jobs : j.status = "queued" /\ j.attempts >= 1 /\ j.last_error = ""

\* ------------------------------------------------------------------------
\* SpecRequeue: searchable PUTs without OPENAI_API_KEY queue jobs; two workers run
\* in once or in loop mode, are run again after they returned, with an embedder that
\* succeeds or fails; the admin route requeues by each status filter it accepts
MaxJobs == 1

RequeueStatuses == {"failed", "queued", "running", "succeeded"}

RequeueLimits == {1, 100}

RequeueTicks == {32}

\* runLoop(opts) called again after an earlier call returned
WorkerRestart(w, once) ==
  /\ wk[w].pc = "exit"
  /\ wk' = [wk EXCEPT ![w] = [OffWorker EXCEPT !.pc = "claim", !.once = once]]
  /\ UNCHANGED <<gateVars, now, nticks, env, dbVars, dumpCache, req>>

InitRequeue == InitWith({FALSE})

NextRequeue ==
  \/ \E b \in JobPuts : Quiet /\ Len(versions) < MaxJobs /\ StartWrite(1, "put", "T1", NoKey, b, TRUE)
  \/ \E r \in Slots : WriteStep(r)
  \/ \E r \in Slots : EnqueueJob(r)
  \/ \E w \in Workers, once \in BOOLEAN : WorkerStart(w, once)
  \/ \E w \in Workers, once \in BOOLEAN : WorkerRestart(w, once)
  \/ \E w \in Workers : WorkerStep(w, BOOLEAN)
  \/ \E w \in Workers : WorkerWake(w)
  \/ \E status \in RequeueStatuses, limit \in RequeueLimits : AdminRequeue("T1", status, limit)
  \/ \E d \in RequeueTicks : Tick(d)

SpecRequeue == InitRequeue /\ [][NextRequeue]_vars

\* the workers that hold the job of a version between their claim and their last
\* statement on it
Processing(vid) ==
  {w \in Workers : wk[w].job = vid /\ wk[w].pc \in {"embed", "insert", "tokens", "finish", "catch"}}

\* C11: at every instant at most one worker is processing a given embedding job, in
\* any interleaving of worker claims, retries and admin requeue operations.
C11_OneWorkerPerJob ==
  \A j \in jobs : Cardinality(Processing(j.version_id)) <= 1

\* C12: a worker changes an embedding job's status only along queued -> running (on
\* claim, with attempts incremented by exactly one), running -> succeeded/done,
\* running -> queued (retry) and running -> failed, and never claims or modifies a job
\* whose status is succeeded, done or failed.
C12_JobTransitions ==
  [][\A j \in jobs : \A k \in jobs' :
       (wk' # wk /\ k.version_id = j.version_id /\ k # j)
       => /\ j.status \notin {"succeeded", "done", "failed"}
          /\ k.status # j.status
               => \/ j.status = "queued" /\ k.status = "running" /\ k.attempts = j.attempts + 1
                  \/ j.status = "running" /\ k.status \in {"succeeded", "done", "queued", "failed"}
                       /\ k.attempts = j.attempts]_vars

\* the row of the job of a version after the step
JobAfter(vid) == CHOOSE j \in jobs' : j.version_id = vid

\* C13: when processing a claimed job throws, the job returns to queued if its attempts
\* < MAX_ATTEMPTS and becomes failed if its attempts >= MAX_ATTEMPTS; a job's attempts
\* never exceeds MAX_ATTEMPTS, and a failed job is never claimed again (a job is
\* failed only with MAX_ATTEMPTS attempts, attempts never decrease, and a claim takes
\* only a queued job with fewer).
C13_RetryPolicy ==
  [][/\ \A w \in Workers :
          (wk[w].pc = "catch" /\ wk'[w].pc # "catch")
          => JobAfter(wk[w].job).status =
               IF JobOf(wk[w].job).attempts < MAX_ATTEMPTS THEN "queued" ELSE "failed"
     /\ \A w \in Workers :
          (wk[w].pc = "claim" /\ wk'[w].pc = "embed")
          => LET j == JobOf(wk'[w].job)
             IN j.status = "queued" /\ j.attempts < MAX_ATTEMPTS
     /\ \A j \in jobs' :
          /\ j.attempts <= MAX_ATTEMPTS
          /\ j.status = "failed" => j.attempts >= MAX_ATTEMPTS
          /\ \A i \in jobs : i.version_id = j.version_id => j.attempts >= i.attempts]_vars

\* C14: whenever a worker finishes processing a job without error (the embedder
\* answered, the embedding and the token count were written and the final status
\* update ran), the job's status is succeeded with last_error cleared, and exactly
\* one embedding row exists for the job's version.
C14_FinishedIsSucceeded ==
  [][\A w \in Workers :
       (wk[w].pc = "finish" /\ wk'[w].pc # "finish")
       => /\ JobAfter(wk[w].job).status = "succeeded"
          /\ JobAfter(wk[w].job).last_error = ""
          /\ Cardinality({e \in embeddings' : e.version_id = wk[w].job}) = 1]_vars

\* a step of the admin requeue route: the only step that changes job rows and neither
\* a worker nor a request
RequeueStep == jobs' # jobs /\ wk' = wk /\ req' = req

\* C15: the admin requeue operation resets jobs to queued, and every job it resets is
\* afterwards eligible to be claimed (the claim statement of a running worker selects
\* it), so that a running worker processes it again.
C15_RequeuedIsClaimable ==
  [][RequeueStep => \A k \in jobs' \ jobs : k.status = "queued" /\ Claimable(k)]_vars

\* ------------------------------------------------------------------------
\* SpecGate: PUT and DELETE requests of /x from one address, with and without a
\* valid Authorization header, with and without an Idempotency-Key, with valid and
\* invalid bodies, one at a time, pass the pre-auth bucket (3 per minute),
\* authentication, the scope check and the endpoint rate limit (2 per minute) before
\* their handler runs; the clock stands still, so every window is the first one
GatePreauthLimit == 3

GateRateLimit == 2

GateAuths ==
  {NoAuth, [id |-> "w", secret |-> "s"], [id |-> "ro", secret |-> "s"], [id |-> "x", secret |-> "s"]}

GatePuts ==
  [agent_id : {"a", ""}, path : {P_x}, value : {1}, ttl_seconds : {0}, searchable : {FALSE}]

GateDeletes == [agent_id : {"a"}, path : {P_x, P_bad}]

\* the steps of authenticate and of the handler up to its first await
GateStep(r) ==
  \/ AuthStart(r)
  \/ AuthLookup(r)
  \/ AuthVerify(r)
  \/ HandleWrite(r)

InitGate == InitEnv({FALSE}, {GatePreauthLimit}, {GateRateLimit})

NextGate ==
  \/ \E auth \in GateAuths, k \in {NoKey} \cup Keys, b \in GatePuts :
       Arrive(1, "put", "ip1", auth, k, b)
  \/ \E auth \in GateAuths, k \in {NoKey} \cup Keys, b \in GateDeletes :
       Arrive(1, "delete", "ip1", auth, k, b)
  \/ \E r \in Slots : GateStep(r)
  \/ \E r \in Slots : WriteStep(r)
  \/ \E r \in Slots : KeyStep(r)

SpecGate == InitGate /\ [][NextGate]_vars

\* slot r is answered in this step with the error code
Denied(r, codes) ==
  /\ req[r].pc # "done"
  /\ req'[r].pc = "done"
  /\ req'[r].resp.kind = "error"
  /\ req'[r].resp.code \in codes

\* the write requests of the tenant the endpoint rate limit has admitted
Admitted(t) == limits[<<t, "put">>].count + limits[<<t, "delete">>].count

\* every admitted write request of the tenant has incremented today's writes counter
QuotaCounted(t) == QuotaRow(t, todayUtc).writes = Admitted(t)

\* C16: every PUT and DELETE passes the gates in the order pre-auth bucket,
\* authentication, scope check, endpoint rate limit, write-quota increment,
\* idempotency lookup, input validation, handler, idempotency store: a request denied
\* at one gate leaves the state of every later gate as it was, and the write quota is
\* incremented before the idempotency lookup and before input validation, so that a
\* request that waits for its lookup, or has been answered, has counted against the
\* quota if the rate limit admitted it.
C16_GateOrder ==
  [][\A r \in Slots :
       /\ Denied(r, {"PREAUTH_RATE_LIMIT_EXCEEDED"})
            => UNCHANGED <<failedAttempts, authCache, limits, dbVars>>
       /\ (Denied(r, {"UNAUTHORIZED", "AUTH_LOCKOUT"}) \/ (Denied(r, {"INTERNAL"}) /\ req'[r].resp.status = 403
                                                            /\ req[r].pc = "handler"))
            => UNCHANGED <<limits, dbVars>>
       /\ Denied(r, {"RATE_LIMIT_EXCEEDED"}) => UNCHANGED dbVars
       /\ \A t \in Tenants :
            (req'[r].pc \in {"idem", "done"} /\ req'[r].tenant = t) => QuotaCounted(t)']_vars

\* the versions (tombstones included) the tenant created on the UTC day
CreatedOn(t, day) ==
  {i \in VersionIds : versions[i].tenant_id = t /\ versions[i].created_at \div DAY_SECONDS = day}

\* C17: however requests interleave, a tenant never creates more versions (by PUT or
\* DELETE) in one UTC day than the configured write limit.
C17_WriteQuota ==
  \A t \in Tenants : Cardinality(CreatedOn(t, todayUtc)) <= QuotaWritesPerDay

\* ------------------------------------------------------------------------
\* SpecRate: concurrent PUT and DELETE requests of /x under a valid key, with the
\* endpoint rate limit at 2 per minute and the pre-auth bucket switched off, while
\* the clock moves within and past the window of 60 seconds
RateAuths == {[id |-> "w", secret |-> "s"]}

RatePuts == PutBodies({P_x}, {1}, {0}, {FALSE})

RateDeletes == DeleteBodies({P_x})

RateTicks == {1, WINDOW_SECONDS - 1}

InitRate == InitEnv({FALSE}, {0}, {GateRateLimit})

NextRate ==
  \/ \E r \in Slots, auth \in RateAuths, b \in RatePuts : Arrive(r, "put", "ip1", auth, NoKey, b)
  \/ \E r \in Slots, auth \in RateAuths, b \in RateDeletes :
       Arrive(r, "delete", "ip1", auth, NoKey, b)
  \/ \E r \in Slots : GateStep(r)
  \/ \E r \in Slots : WriteStep(r)
  \/ \E d \in RateTicks : Tick(d)

SpecRate == InitRate /\ [][NextRate]_vars

\* C18: given the limit L of a (tenant, endpoint): once L requests have been admitted
\* in the current window of 60 s, the next request in that window is denied with 429
\* RATE_LIMIT_EXCEEDED before the handler has any effect and leaves the window as it
\* is; a request in the window below the limit is admitted and counted; the first
\* request after the window expired is admitted into a new window with count 1.
C18_RateLimitDenial ==
  [][\A r \in Slots :
       (req[r].pc = "handler" /\ req'[r].pc # "handler" /\ requireScope(req[r].data, "memory:write"))
       => LET k == <<req[r].tenant, req[r].op>>
              L == env.RATE_LIMIT_REQUESTS_PER_MINUTE
              inWindow == limits[k] # NoLimit /\ limits[k].resetAt > now
              denied == /\ req'[r].pc = "done"
                        /\ req'[r].resp = errorHandler(429, "RATE_LIMIT_EXCEEDED")
          IN IF inWindow /\ limits[k].count >= L
             THEN denied /\ UNCHANGED <<limits, dbVars>>
             ELSE IF inWindow
             THEN /\ ~denied
                  /\ limits'[k] = [limits[k] EXCEPT !.count = @ + 1]
             ELSE /\ ~denied
                  /\ limits'[k] = [count |-> 1, resetAt |-> now + WINDOW_SECONDS]]_vars

\* a third PUT in the window of two admitted PUTs was denied late in the window,
\* which still ends at its original time
C18_ThirdDenied ==
  /\ req[1].pc = "done" /\ req[1].op = "put"
  /\ req[1].resp = errorHandler(429, "RATE_LIMIT_EXCEEDED")
  /\ now = WINDOW_SECONDS - 1
  /\ limits[<<"T1", "put">>] = [count |-> GateRateLimit, resetAt |-> WINDOW_SECONDS]
  /\ Len(versions) = GateRateLimit

\* ------------------------------------------------------------------------
\* SpecPreauth: concurrent requests from two addresses, without an Authorization
\* header or with a key id that has no row, against a pre-auth bucket of 2 per minute
\* (one token refilled every 30 seconds)
PreauthLimit == 2

PreauthAuths == {NoAuth, [id |-> "x", secret |-> "s"]}

PreauthTicks == {1, 30}

InitPreauth == InitEnv({FALSE}, {PreauthLimit}, {GateRateLimit})

NextPreauth ==
  \/ \E r \in Slots, ip \in Ips, auth \in PreauthAuths, b \in RatePuts :
       Arrive(r, "put", ip, auth, NoKey, b)
  \/ \E r \in Slots : AuthStart(r)
  \/ \E r \in Slots : AuthLookup(r)
  \/ \E d \in PreauthTicks : Tick(d)

SpecPreauth == InitPreauth /\ [][NextPreauth]_vars

\* a request arrives in slot r in this step
Arrives(r) == Free(r) /\ req'[r] # req[r]

\* C19: the per-IP pre-auth bucket is applied to every request before authentication:
\* with capacity L, a request that finds less than one token in the bucket of its
\* address, no time having passed since the bucket was last used (so the (L+1)-th
\* of a burst), is answered 429 PREAUTH_RATE_LIMIT_EXCEEDED without reaching
\* authentication (no lockout entry, failure count, auth cache entry, rate-limit
\* window or table changes); a denied request consumes no token, an admitted one
\* consumes one, and the bucket always holds between 0 and L tokens.
C19_PreauthBucket ==
  [][\A r \in Slots :
       Arrives(r)
       => LET ip == req'[r].ip
              L == env.PREAUTH_RATE_LIMIT_PER_MINUTE
              denied == /\ req'[r].pc = "done"
                        /\ req'[r].resp = errorHandler(429, "PREAUTH_RATE_LIMIT_EXCEEDED")
          IN /\ (buckets[ip] # NoBucket /\ buckets[ip].lastRefillMs = now
                   /\ buckets[ip].tokens < WINDOW_SECONDS) => denied
             /\ buckets[ip] = NoBucket => ~denied
             /\ denied => /\ UNCHANGED <<failedAttempts, failLog, authCache, limits, dbVars>>
                          /\ buckets[ip] # NoBucket
                          /\ buckets'[ip].tokens >= buckets[ip].tokens
             /\ ~denied => /\ req'[r].pc = "auth"
                           /\ buckets[ip] # NoBucket
                                => buckets'[ip].tokens <= buckets[ip].tokens
                                     + (now - buckets[ip].lastRefillMs) * L - WINDOW_SECONDS
             /\ buckets'[ip].tokens >= 0
             /\ buckets'[ip].tokens <= L * WINDOW_SECONDS]_vars

\* the third request of a burst from ip1, carrying a key id without a row, was denied
\* by the bucket: the bucket is empty and no failure was recorded for the id, while
\* the earlier request with the same id was counted as a failure
C19_BurstDenied ==
  /\ now = 0
  /\ req[1].pc = "done" /\ req[1].ip = "ip1" /\ req[1].auth.id = "x"
  /\ req[1].resp = errorHandler(429, "PREAUTH_RATE_LIMIT_EXCEEDED")
  /\ buckets["ip1"] = [tokens |-> 0, lastRefillMs |-> 0]
  /\ failedAttempts["x"].count = 1
  /\ req[2].pc = "done" /\ req[2].ip = "ip1" /\ req[2].resp = errorHandler(401, "UNAUTHORIZED")

\* ------------------------------------------------------------------------
\* SpecLockout: PUT requests, one at a time, carrying the wrong or the right secret
\* of key w (their body is rejected by Body.parse, so that nothing is written), with
\* the pre-auth bucket switched off, while the clock moves to the last second of a
\* lockout window and past it
LockoutAuths == {[id |-> "w", secret |-> "bad"], [id |-> "w", secret |-> "s"]}

LockoutPuts ==
  [agent_id : {""}, path : {P_x}, value : {1}, ttl_seconds : {0}, searchable : {FALSE}]

LockoutTicks == {2, LOCKOUT_WINDOW - 1}

InitLockout == InitEnv({FALSE}, {0}, {GateRateLimit})

NextLockout ==
  \/ \E auth \in LockoutAuths, b \in LockoutPuts : Arrive(1, "put", "ip1", auth, NoKey, b)
  \/ \E r \in Slots : GateStep(r)
  \/ \E d \in LockoutTicks : Tick(d)

SpecLockout == InitLockout /\ [][NextLockout]_vars

\* the failed authentication attempts for the key id within the last 15 minutes
RecentFailures(id) ==
  Cardinality({i \in 1..Len(failLog[id]) : now - failLog[id][i] < LOCKOUT_WINDOW})

\* C20: after 10 or more failed authentication attempts for a key id within 15
\* minutes, every subsequent attempt for that id is answered 429 AUTH_LOCKOUT by the
\* first step of authenticate, without a lookup in api_keys and without argon2.
C20_AuthLockout ==
  [][\A r \in Slots :
       (req[r].pc = "auth" /\ req'[r].pc # "auth"
          /\ RecentFailures(req[r].auth.id) >= LOCKOUT_MAX_ATTEMPTS)
       => /\ req'[r].pc = "done"
          /\ req'[r].resp = errorHandler(429, "AUTH_LOCKOUT")]_vars

\* ------------------------------------------------------------------------
\* SpecRevoke: one client presents key w with its secret, the operator revokes
\* the key, the clock moves within and beyond the life of an auth cache entry.
RevokeAuths == {[id |-> "w", secret |-> "s"]}

RevokePuts == PutBodies({P_x}, {1}, {0}, {FALSE})

RevokeTicks == {1, AUTH_CACHE_TTL}

InitRevoke == InitEnv({FALSE}, {0}, {GateRateLimit})

NextRevoke ==
  \/ \E auth \in RevokeAuths, b \in RevokePuts : Arrive(1, "put", "ip1", auth, NoKey, b)
  \/ \E r \in Slots : GateStep(r)
  \/ \E r \in Slots : WriteStep(r)
  \/ RevokeKey("w")
  \/ \E d \in RevokeTicks : Tick(d)

SpecRevoke == InitRevoke /\ [][NextRevoke]_vars

\* the key a request presents is revoked
Revoked(id) == id \in ApiKeyIds /\ api_keys[id].revoked_at # NULL

\* C21: a request that authenticates with a key whose revoked_at is set is
\* rejected with 401 (429 once the id is locked out) and does not reach its
\* handler: a call of authenticate that starts with the key revoked, and the
\* api_keys lookup that finds it revoked, never hand the request to the handler.
C21_RevokedRejected ==
  [][\A r \in Slots :
       (req[r].pc \in {"auth", "authDb"} /\ req'[r].pc # req[r].pc
          /\ Revoked(req[r].auth.id))
       => /\ req'[r].pc # "handler"
          /\ req'[r].pc = "done"
               => req'[r].resp \in {errorHandler(401, "UNAUTHORIZED"),
                                    errorHandler(429, "AUTH_LOCKOUT")}]_vars

\* C22: a request whose key holds neither memory:write nor admin is answered
\* 403 with error code FORBIDDEN by the step that runs requireScope, and that
\* step leaves the rate limit windows, the quota, the idempotency table and
\* the versions as they were.
C22_ScopeForbidden ==
  [][\A r \in Slots :
       (req[r].pc = "handler" /\ req'[r].pc # "handler"
          /\ ~requireScope(req[r].data, "memory:write"))
       => /\ req'[r].pc = "done"
          /\ req'[r].resp = errorHandler(403, "FORBIDDEN")
          /\ UNCHANGED <<limits, quota, idem, versions, entries>>]_vars

\* C22 without the error code: 403, and nothing behind the scope check touched
ScopeDeniedNoEffect ==
  [][\A r \in Slots :
       (req[r].pc = "handler" /\ req'[r].pc # "handler"
          /\ ~requireScope(req[r].data, "memory:write"))
       => /\ req'[r].pc = "done"
          /\ req'[r].resp.status = 403
          /\ UNCHANGED <<limits, quota, idem, versions, entries>>]_vars

\* ------------------------------------------------------------------------
\* SpecReserved: a client writes and deletes an ordinary path and a path
\* under /sys.
ReservedPuts == PutBodies({P_x, P_sys}, {1}, {0}, {FALSE})

ReservedDeletes == DeleteBodies({P_x, P_sys})

InitReserved == InitWith({FALSE})

NextReserved ==
  \/ \E r \in Slots, b \in ReservedPuts : StartWrite(r, "put", "T1", NoKey, b, TRUE)
  \/ \E r \in Slots, b \in ReservedDeletes : StartWrite(r, "delete", "T1", NoKey, b, TRUE)
  \/ \E r \in Slots : WriteStep(r)

SpecReserved == InitReserved /\ [][NextReserved]_vars

\* the request in slot r leaves the gates with a body whose path is reserved
WritesReserved(r) ==
  /\ Free(r)
  /\ req'[r] # req[r]
  /\ normalizePath(req'[r].body.path).ok
  /\ isReservedPath(normalizePath(req'[r].body.path).path)

\* C23: every PUT or DELETE to /sys or a path under /sys/ is answered 403
\* RESERVED_PATH, and no version row ever has such a path.
C23_ReservedReadOnly ==
  [][/\ \A r \in Slots :
          WritesReserved(r) => /\ req'[r].pc = "done"
                               /\ req'[r].resp = errorHandler(403, "RESERVED_PATH")
     /\ \A i \in 1..Len(versions') : ~isReservedPath(versions'[i].path)]_vars

\* the second half of C23 alone
NoReservedVersion == \A i \in 1..Len(versions) : ~isReservedPath(versions[i].path)

\* the first half of C23 without the error code
ReservedPutRejected ==
  [][\A r \in Slots :
       (WritesReserved(r) /\ req'[r].op = "put")
       => req'[r].pc = "done" /\ req'[r].resp.status = 403]_vars

\* ------------------------------------------------------------------------
\* SpecDump: PUT and DUMP requests for one agent overlap; the clock stands
\* still, so every cache entry is within its TTL and no version expires.
DumpPuts == PutBodies({P_x}, {1}, {0}, {FALSE})

DumpStep(r) ==
  \/ DumpQuery(r)
  \/ DumpSet(r)

InitDump == InitWith({FALSE})

NextDump ==
  \/ \E r \in Slots, b \in DumpPuts : StartWrite(r, "put", "T1", NoKey, b, TRUE)
  \/ \E r \in Slots : WriteStep(r)
  \/ \E r \in Slots, limit \in DumpLimits : DumpStart(r, "T1", "a", limit)
  \/ \E r \in Slots : DumpStep(r)

SpecDump == InitDump /\ [][NextDump]_vars

\* every PUT that was started has completed
PutsCompleted == \A r \in Slots : req[r].op = "put" => req[r].pc = "done"

\* the DUMP that starts in slot r with this step is answered by this step
DumpAnswered(r) == Free(r) /\ req'[r] # req[r] /\ req'[r].op = "dump" /\ req'[r].pc = "done"

\* C24: a DUMP that starts when every PUT for the agent has completed is not
\* answered with a response computed before one of those PUTs: its entries
\* are the visible latest versions of the agent as they are now.
C24_DumpSeesCompletedPuts ==
  [][\A r \in Slots :
       (PutsCompleted /\ DumpAnswered(r))
       => req'[r].resp.rows = DumpEntries(req'[r].tenant, req'[r].body.agent_id, 200)]_vars

\* ------------------------------------------------------------------------
\* SpecList: a client writes paths below /d, /d% and /dx and lists the
\* prefixes /d, /d% and /d_.
ListPuts == PutBodies({P_dy, P_dyk, P_dpy, P_dxy}, {1}, {0}, {FALSE})

ListPrefixes == {<<"/", "d">>, <<"/", "d", "%">>, <<"/", "d", "_">>}

InitList == InitWith({FALSE})

NextList ==
  \/ \E b \in ListPuts : Quiet /\ StartWrite(1, "put", "T1", NoKey, b, TRUE)
  \/ \E r \in Slots : WriteStep(r)
  \/ \E prefix \in ListPrefixes : List(2, "T1", "a", prefix)

SpecList == InitList /\ [][NextList]_vars

\* the step answers a LIST request in slot r with a list of items
ListAnswered(r) ==
  Free(r) /\ req'[r] # req[r] /\ req'[r].op = "list" /\ req'[r].resp.kind = "list"

\* the visible latest paths of the agent that begin with prefix + "/"
Below(t, a, prefix) ==
  {v.path : v \in {x \in LatestVisible(t, a) : StartsWith(x.path, prefix \o <<"/">>)}}

\* the part of path p after prefix + "/"
Suffix(prefix, p) == Slice(p, Len(prefix) + 1)

\* the direct child of prefix on the way to p
ChildOf(prefix, p) == prefix \o <<"/">> \o SplitSlash(Suffix(prefix, p))[1]

\* C25: the items of a LIST are the direct children of the prefix among the
\* visible paths, each once; a child is a dir when the suffix of a matching
\* path below it contains another "/", and a file otherwise.
C25_ListDirectChildren ==
  [][\A r \in Slots :
       ListAnswered(r) =>
         LET prefix == normalizePath(req'[r].body.path).path
             items == req'[r].resp.rows
             below == Below(req'[r].tenant, req'[r].body.agent_id, prefix)
         IN /\ {items[i].path : i \in 1..Len(items)} = {ChildOf(prefix, p) : p \in below}
            /\ \A i, j \in 1..Len(items) : items[i].path = items[j].path => i = j
            /\ \A i \in 1..Len(items) :
                 items[i].type = "dir"
                   <=> \E p \in below : /\ ChildOf(prefix, p) = items[i].path
                                         /\ Includes(Suffix(prefix, p), "/")]_vars

\* C25 without the classification: the children, each once
ListChildrenOnce ==
  [][\A r \in Slots :
       ListAnswered(r) =>
         LET prefix == normalizePath(req'[r].body.path).path
             items == req'[r].resp.rows
             below == Below(req'[r].tenant, req'[r].body.agent_id, prefix)
         IN /\ {items[i].path : i \in 1..Len(items)} = {ChildOf(prefix, p) : p \in below}
            /\ \A i, j \in 1..Len(items) : items[i].path = items[j].path => i = j]_vars

\* C26: the items of a LIST come only from paths that begin with the literal
\* prefix followed by "/", also when the prefix contains %, _ or \: every
\* item is a child of the prefix on the way to such a path.
C26_PrefixLiteral ==
  [][\A r \in Slots :
       ListAnswered(r) =>
         LET prefix == normalizePath(req'[r].body.path).path
             items == req'[r].resp.rows
             below == Below(req'[r].tenant, req'[r].body.agent_id, prefix)
         IN \A i \in 1..Len(items) : \E p \in below : items[i].path = ChildOf(prefix, p)]_vars

\* a LIST of /d% was answered with its child /d%/y while /dx/y is visible too
C26_ListedLiteral ==
  /\ req[2].op = "list" /\ req[2].pc = "done"
  /\ req[2].body.path = <<"/", "d", "%">>
  /\ Len(req[2].resp.rows) = 1
  /\ req[2].resp.rows[1].path = P_dpy
  /\ P_dxy \in {v.path : v \in LatestVisible("T1", "a")}

\* ------------------------------------------------------------------------
\* SpecGlob: globToSqlLike applied to every string of at most MaxGlobLen
\* characters over the wildcards, the LIKE metacharacters, "/" and a letter.
MaxGlobLen == 3

GlobAlphabet == {"/", "a", "*", "?", "%", "_", "\\"}

GlobStrings == UNION {[1..n -> GlobAlphabet] : n \in 0..MaxGlobLen}

\* const { like } = globToSqlLike(glob): the glob and its pattern, kept in slot 1
TranslateGlob(glob) ==
  /\ req' = [req EXCEPT ![1] =
               Reply(NewReq("glob", "T1", NoKey, ReadArgs("a", glob)),
                     [NoResp EXCEPT !.kind = "like", !.path = globToSqlLike(glob)])]
  /\ UNCHANGED <<gateVars, now, nticks, env, dbVars, dumpCache, wk>>

InitGlob == InitWith({FALSE})

NextGlob == \E glob \in GlobStrings : TranslateGlob(glob)

SpecGlob == InitGlob /\ [][NextGlob]_vars

\* what the rules say a glob matches: * and ** any run of characters, ? one
\* character, every other character itself
RECURSIVE GlobMatch(_, _)
GlobMatch(s, glob) ==
  IF glob = <<>> THEN s = <<>>
  ELSE IF glob[1] = "*" THEN GlobMatch(s, Tail(glob)) \/ (s # <<>> /\ GlobMatch(Tail(s), glob))
  ELSE IF glob[1] = "?" THEN s # <<>> /\ GlobMatch(Tail(s), Tail(glob))
  ELSE s # <<>> /\ s[1] = glob[1] /\ GlobMatch(Tail(s), Tail(glob))

NoWildcard(glob) == \A i \in 1..Len(glob) : glob[i] \notin {"*", "?"}

\* C27: the pattern of a glob matches, under LIKE ... ESCAPE '\', the strings
\* the rules give it (** and * as %, ? as _, every %, _ and \ of the input
\* literally, all else unchanged); a glob without wildcards matches exactly
\* the string equal to itself.
C27_GlobTranslation ==
  \A r \in Slots :
    (req[r].op = "glob" /\ req[r].resp.kind = "like") =>
      \A s \in GlobStrings :
        /\ Like(s, req[r].resp.path) <=> GlobMatch(s, req[r].body.path)
        /\ NoWildcard(req[r].body.path) => (Like(s, req[r].resp.path) <=> s = req[r].body.path)

\* the glob /%_ was translated: both metacharacters escaped
C27_EscapedGlob ==
  /\ req[1].op = "glob" /\ req[1].resp.kind = "like"
  /\ req[1].body.path = <<"/", "%", "_">>
  /\ req[1].resp.path = <<"/", "\\", "%", "\\", "_">>

\* ------------------------------------------------------------------------
\* SpecPath: normalizePath applied to every string of at most MaxInputLen
\* characters over "/", "." and a letter.
MaxInputLen == 5

PathAlphabet == {"/", ".", "a"}

PathInputs == UNION {[1..n -> PathAlphabet] : n \in 0..MaxInputLen}

\* normalizePath(input) called by a handler: the path, or the error handler's answer
NormalizePath(input) ==
  /\ req' = [req EXCEPT ![1] =
               Reply(NewReq("normalize", "T1", NoKey, ReadArgs("a", input)),
                     IF normalizePath(input).ok
                     THEN [NoResp EXCEPT !.status = 200, !.code = "ok", !.kind = "path",
                                         !.path = normalizePath(input).path]
                     ELSE errorHandler(400, "INVALID_PATH"))]
  /\ UNCHANGED <<gateVars, now, nticks, env, dbVars, dumpCache, wk>>

InitPath == InitWith({FALSE})

NextPath == \E input \in PathInputs : NormalizePath(input)

SpecPath == InitPath /\ [][NextPath]_vars

\* the segments of a path: what stands between its runs of "/"
Segments(input) == SelectSeq(SplitSlash(input), LAMBDA x : x # <<>>)

RECURSIVE JoinSegments(_)
JoinSegments(segs) ==
  IF segs = <<>> THEN <<>> ELSE <<"/">> \o segs[1] \o JoinSegments(Tail(segs))

\* the paths the rules accept
Acceptable(input) ==
  /\ StartsWith(input, <<"/">>)
  /\ \A i \in 1..Len(Segments(input)) : Segments(input)[i] \notin {<<".">>, <<".", ".">>}
  /\ Len(input) <= MAX_PATH_LEN
  /\ Len(Segments(input)) <= MAX_SEGMENTS

\* consecutive "/" collapsed, a trailing "/" stripped, the root kept
Normalized(input) == IF Segments(input) = <<>> THEN <<"/">> ELSE JoinSegments(Segments(input))

Normalizes(r) == req[r].op = "normalize" /\ req[r].pc = "done"

\* C28: normalizePath answers an acceptable input (leading "/", no "." or ".."
\* segment, within the length and segment caps) with its normal form, the root
\* "/" included, and the normal form is a fixed point; it fails every other
\* input with 400 INVALID_PATH.
C28_NormalizePath ==
  \A r \in Slots :
    Normalizes(r) =>
      IF Acceptable(req[r].body.path)
      THEN /\ req[r].resp.kind = "path"
           /\ req[r].resp.path = Normalized(req[r].body.path)
           /\ normalizePath(req[r].resp.path) = [ok |-> TRUE, path |-> req[r].resp.path]
      ELSE req[r].resp = errorHandler(400, "INVALID_PATH")

\* C28 for the inputs that have a segment, that is, all but "/", "//", ...
NormalizeNonRoot ==
  \A r \in Slots :
    (Normalizes(r) /\ Segments(req[r].body.path) # <<>>) =>
      IF Acceptable(req[r].body.path)
      THEN /\ req[r].resp.kind = "path"
           /\ req[r].resp.path = Normalized(req[r].body.path)
           /\ normalizePath(req[r].resp.path) = [ok |-> TRUE, path |-> req[r].resp.path]
      ELSE req[r].resp = errorHandler(400, "INVALID_PATH")

\* ------------------------------------------------------------------------
\* SpecCanon: the request hash of two JSON bodies, objects with the keys a and
\* d in either order whose values are numbers, arrays or such objects again.
JNum(n) == [t |-> "num", n |-> n, items |-> <<>>]

JArr(items) == [t |-> "arr", n |-> "", items |-> items]

JObj(members) == [t |-> "obj", n |-> "", items |-> members]

JNums == {JNum("1"), JNum("2")}

JArrays == {JArr(<<x, y>>) : x, y \in JNums}

\* the objects with the members k1: x and k2: y, in this order
JObjects(values) ==
  {JObj(<<[k |-> ks[1], v |-> x], [k |-> ks[2], v |-> y]>>) :
     ks \in {<<"a", "d">>, <<"d", "a">>}, x \in values, y \in values}

JBodies == JObjects(JNums \cup JArrays \cup JObjects(JNums))

\* hashRequestCanonical(body) as checkIdempotency and storeIdempotency compute it
HashRequest(r, body) ==
  /\ req' = [req EXCEPT ![r] =
               Reply(NewReq("hash", "T1", NoKey, body),
                     [NoResp EXCEPT !.kind = "hash", !.path = hashRequestCanonical(body)])]
  /\ UNCHANGED <<gateVars, now, nticks, env, dbVars, dumpCache, wk>>

InitCanon == InitWith({FALSE})

\* each slot hashes one body
NextCanon == \E r \in Slots, body \in JBodies : req[r].pc = "idle" /\ HashRequest(r, body)

SpecCanon == InitCanon /\ [][NextCanon]_vars

\* a JSON value without its member order: the members of an object as a set
RECURSIVE Unordered(_)
Unordered(value) ==
  IF value.t = "num" THEN [t |-> "num", n |-> value.n, items |-> <<>>, members |-> {}]
  ELSE IF value.t = "arr"
       THEN [t |-> "arr", n |-> "", members |-> {},
             items |-> [i \in 1..Len(value.items) |-> Unordered(value.items[i])]]
  ELSE [t |-> "obj", n |-> "", items |-> <<>>,
        members |-> {[k |-> value.items[i].k, v |-> Unordered(value.items[i].v)] :
                       i \in 1..Len(value.items)}]

Hashed(r) == req[r].op = "hash" /\ req[r].pc = "done"

\* the row storeIdempotency wrote for the body hashed in slot r
HashRow(r) == [NoRow EXCEPT !.request_hash = req[r].resp.path]

\* C29: two bodies that differ only in the order of object keys, at any depth,
\* have the same request hash, and the lookup of one against the stored hash
\* of the other reports no mismatch; bodies that differ otherwise, be it only
\* in the order of an array, have different hashes.
C29_CanonicalHash ==
  \A r1, r2 \in Slots :
    (Hashed(r1) /\ Hashed(r2)) =>
      IF Unordered(req[r1].body) = Unordered(req[r2].body)
      THEN /\ req[r1].resp.path = req[r2].resp.path
           /\ ~IdemMismatch(HashRow(r1), req[r2].body)
      ELSE req[r1].resp.path # req[r2].resp.path

\* {a: {a: 1, d: 2}, d: [1, 2]} and {d: [1, 2], a: {d: 2, a: 1}} were hashed
C29_ReorderedHashedEqual ==
  /\ Hashed(1) /\ Hashed(2)
  /\ req[1].body = JObj(<<[k |-> "a", v |-> JObj(<<[k |-> "a", v |-> JNum("1")],
                                                  [k |-> "d", v |-> JNum("2")]>>)],
                          [k |-> "d", v |-> JArr(<<JNum("1"), JNum("2")>>)]>>)
  /\ req[2].body = JObj(<<[k |-> "d", v |-> JArr(<<JNum("1"), JNum("2")>>)],
                          [k |-> "a", v |-> JObj(<<[k |-> "d", v |-> JNum("2")],
                                                  [k |-> "a", v |-> JNum("1")]>>)]>>)
  /\ req[1].resp.path = req[2].resp.path

\* ------------------------------------------------------------------------
\* SpecHistory: a client writes /x with and without a TTL and deletes it, the
\* clock passes the TTL, and HISTORY is asked with no limit, with limits below
\* the number of versions, and with a limit beyond 100.
HistoryPuts == PutBodies({P_x}, {1}, Ttls, {FALSE})

HistoryDeletes == DeleteBodies({P_x})

HistoryLimits == {0, 1, 2, 101}

HistoryTicks == {2}

InitHistory == InitWith({FALSE})

NextHistory ==
  \/ \E b \in HistoryPuts : Quiet /\ StartWrite(1, "put", "T1", NoKey, b, TRUE)
  \/ \E b \in HistoryDeletes : Quiet /\ StartWrite(1, "delete", "T1", NoKey, b, TRUE)
  \/ \E r \in Slots : WriteStep(r)
  \/ \E limit \in HistoryLimits : History(2, "T1", "a", P_x, limit)
  \/ \E d \in HistoryTicks : Tick(d)

SpecHistory == InitHistory /\ [][NextHistory]_vars

\* the step answers a HISTORY request in slot r with a list of versions
HistoryAnswered(r) ==
  Free(r) /\ req'[r] # req[r] /\ req'[r].op = "history" /\ req'[r].resp.kind = "history"

\* C30: a HISTORY answer holds min(limit, number of versions of the triple)
\* rows, limit being at most 100 and 20 when absent; the rows are versions of
\* the triple, each once, newest first by created_at, and no version left out
\* is newer than a row: tombstones and expired versions count like all others.
C30_HistoryNewestFirst ==
  [][\A r \in Slots :
       HistoryAnswered(r) =>
         LET rows == req'[r].resp.rows
             limit == IF req'[r].body.limit = 0 THEN 20 ELSE req'[r].body.limit
             all == VersionsOf(req'[r].tenant, req'[r].body.agent_id,
                               normalizePath(req'[r].body.path).path)
             shown == {rows[i].version_id : i \in 1..Len(rows)}
         IN /\ limit <= 100
            /\ Len(rows) = IF Len(all) < limit THEN Len(all) ELSE limit
            /\ \A i \in 1..Len(rows) :
                 \E j \in 1..Len(all) :
                   /\ all[j].id = rows[i].version_id
                   /\ rows[i] = [version_id |-> all[j].id, created_at |-> all[j].created_at,
                                 value |-> all[j].value_json, expires_at |-> all[j].expires_at,
                                 deleted_at |-> all[j].deleted_at]
            /\ \A i, j \in 1..Len(rows) :
                 /\ rows[i].version_id = rows[j].version_id => i = j
                 /\ i < j => rows[i].created_at >= rows[j].created_at
            /\ \A j \in 1..Len(all) :
                 all[j].id \notin shown
                   => \A i \in 1..Len(rows) : all[j].created_at <= rows[i].created_at]_vars

\* a HISTORY with limit 2 over three versions answered with the tombstone and
\* an expired version
C30_TombstoneAndExpiredShown ==
  /\ req[2].op = "history" /\ req[2].pc = "done" /\ req[2].body.limit = 2
  /\ Len(versions) = 3
  /\ Len(req[2].resp.rows) = 2
  /\ req[2].resp.rows[1].deleted_at # NULL
  /\ req[2].resp.rows[2].expires_at # NULL /\ req[2].resp.rows[2].expires_at <= now

\* ------------------------------------------------------------------------
\* SpecOpaque: one searchable PUT with inline embedding, a worker in once mode and
\* one SEARCH, each calling a provider that answers with a vector, fails, answers
\* with an error status and a body, or answers 200 with a body that is no JSON.
OpaquePuts == PutBodies({P_x}, {1}, {0}, {TRUE})

NodeEnvs == {"development", "production"}

InitOpaque ==
  InitNode({TRUE}, {PREAUTH_RATE_LIMIT_PER_MINUTE}, {RATE_LIMIT_REQUESTS_PER_MINUTE}, NodeEnvs)

NextOpaque ==
  \/ \E b \in OpaquePuts : versions = <<>> /\ StartWrite(1, "put", "T1", NoKey, b, TRUE)
  \/ WriteStep(1)
  \/ \E res \in UpstreamResponses : EmbedInlineQuery(1, res)
  \/ InsertEmbedding(1)
  \/ InsertJobDone(1)
  \/ EnqueueJob(1)
  \/ WorkerStart(1, TRUE)
  \/ WorkerRestart(1, TRUE)
  \/ WorkerClaim(1)
  \/ WorkerIdleExit(1)
  \/ \E res \in UpstreamResponses : WorkerEmbedText(1, res)
  \/ WorkerInsertEmbedding(1)
  \/ WorkerTokens(1)
  \/ WorkerFinish(1)
  \/ WorkerCatch(1)
  \/ QuotaRow("T1", todayUtc).searches = 0 /\ SearchStart(2, "T1", "a", <<>>)
  \/ \E res \in UpstreamResponses : SearchEmbed(2, res, 10)

SpecOpaque == InitOpaque /\ [][NextOpaque]_vars

\* the provider's outcome res with another body
OtherBody(res, b) == [res EXCEPT !.body = b]

\* the step of worker w writes last_error after a failed provider call
WorkerRecords(w) ==
  wk[w].pc = "catch" /\ wk'[w] # wk[w] /\ wk[w].res.kind \notin {"ok", "-"}

\* the step of request r enqueues a job with a last_error after a failed provider call
InlineRecords(r) ==
  /\ req[r].pc = "enqueueErr" /\ req'[r].pc # "enqueueErr"
  /\ req[r].upstream.kind \notin {"ok", "-"}
  /\ ~HasJob(req[r].ver.id)

\* the step answers the SEARCH in slot r after a failed provider call
SearchFails(r) ==
  req[r].pc = "query" /\ req'[r].pc = "done" /\ req'[r].upstream.kind \notin {"ok", "-"}

LastErrorAfter(vid) == (CHOOSE j \in jobs' : j.version_id = vid).last_error

\* C31: what an embedder failure leaves behind does not depend on the body the
\* provider sent: the last_error the worker writes, the last_error the PUT
\* enqueues after a failed inline embedding, and the client's response to a
\* SEARCH are the same for every other body of the same provider outcome.
C31_ErrorOpacity ==
  [][/\ \A w \in Workers :
          WorkerRecords(w) =>
            \A b \in UpstreamBodies :
              LastErrorAfter(wk[w].job) = WorkerError(OtherBody(wk[w].res, b))
     /\ \A r \in Slots :
          /\ InlineRecords(r) =>
               \A b \in UpstreamBodies :
                 LastErrorAfter(req[r].ver.id) = InlineError(OtherBody(req[r].upstream, b))
          /\ SearchFails(r) =>
               \A b \in UpstreamBodies :
                 req'[r].resp = setErrorHandler(embedQuery(OtherBody(req'[r].upstream, b)))]_vars

\* the part of C31 that holds: the body of an answer with an error status, like a
\* failed request, leaves no trace in last_error or in the response
ErrorStatusOpaque ==
  [][/\ \A w \in Workers :
          WorkerRecords(w) /\ wk[w].res.kind \in {"network", "status"} =>
            \A b \in UpstreamBodies :
              LastErrorAfter(wk[w].job) = WorkerError(OtherBody(wk[w].res, b))
     /\ \A r \in Slots :
          /\ InlineRecords(r) /\ req[r].upstream.kind \in {"network", "status"} =>
               \A b \in UpstreamBodies :
                 LastErrorAfter(req[r].ver.id) = InlineError(OtherBody(req[r].upstream, b))
          /\ SearchFails(r) /\ req'[r].upstream.kind \in {"network", "status"} =>
               \A b \in UpstreamBodies :
                 req'[r].resp = setErrorHandler(embedQuery(OtherBody(req'[r].upstream, b)))]_vars

\* ------------------------------------------------------------------------
\* SpecRetry: searchable PUTs without an inline embedder enqueue jobs; one worker
\* runs the loop against a provider that answers or fails, and sleeps the backoff.
\* The loop's statements are awaited one after the other, each returns (the
\* provider call times out after 15 s), and the timers of the sleeps fire: weak
\* fairness of the worker's steps and of the clock.
RetryPuts == PutBodies({P_x}, {1}, {0}, {TRUE})

\* the clock reaches the end of worker w's backoff sleep
Elapse(w) ==
  /\ wk[w].pc = "backoff"
  /\ now < wk[w].wake
  /\ now' = wk[w].wake
  /\ UNCHANGED <<gateVars, nticks, env, dbVars, dumpCache, req, wk>>

WorkerLoop(w) ==
  \/ WorkerClaim(w)
  \/ \E ok \in BOOLEAN : WorkerEmbed(w, ok)
  \/ WorkerInsertEmbedding(w)
  \/ WorkerTokens(w)
  \/ WorkerFinish(w)
  \/ WorkerCatch(w)
  \/ WorkerWake(w)

InitRetry == InitWith({FALSE})

NextRetry ==
  \/ \E b \in RetryPuts : Quiet /\ StartWrite(1, "put", "T1", NoKey, b, TRUE)
  \/ WriteStep(1)
  \/ EnqueueJob(1)
  \/ WorkerStart(1, FALSE)
  \/ WorkerLoop(1)
  \/ Elapse(1)

SpecRetry ==
  InitRetry /\ [][NextRetry]_vars /\ WF_vars(WorkerLoop(1)) /\ WF_vars(Elapse(1))

\* the job of version vid waits for a worker with attempts left, and a worker runs
Waiting(vid) ==
  /\ HasJob(vid)
  /\ JobOf(vid).status = "queued"
  /\ JobOf(vid).attempts < MAX_ATTEMPTS
  /\ wk[1].pc # "off"

\* the job of version vid is over, with no more than MAX_ATTEMPTS attempts
Over(vid) ==
  /\ HasJob(vid)
  /\ JobOf(vid).status \in {"succeeded", "done", "failed"}
  /\ JobOf(vid).attempts <= MAX_ATTEMPTS

\* C32: while a worker runs, every queued job with attempts < MAX_ATTEMPTS is
\* eventually claimed (running) and eventually over (succeeded, done or failed)
\* with at most MAX_ATTEMPTS attempts; none stays queued forever.
C32_JobsRetried ==
  \A vid \in 1..MaxVersions :
    /\ Waiting(vid) ~> (HasJob(vid) /\ JobOf(vid).status = "running")
    /\ Waiting(vid) ~> Over(vid)

\* a job that failed for good after MAX_ATTEMPTS attempts
C32_FailedAfterRetries ==
  \E j \in jobs : j.status = "failed" /\ j.attempts = MAX_ATTEMPTS /\ wk[1].pc = "claim"

\* ------------------------------------------------------------------------
\* SpecCrash: one job, two workers that run the loop, are stopped at any point
\* between the claim and the write of the outcome, and are started again; an
\* operator may requeue running jobs. Fairness as in SpecRetry for both workers,
\* and a stopped worker is started again.
CrashPuts == PutBodies({P_x}, {1}, {0}, {TRUE})

\* the process of worker w ends between two statements of the loop: nothing of its
\* state survives, the rows it wrote stay as they are
WorkerCrash(w) ==
  /\ wk[w].pc \in {"embed", "insert", "tokens", "finish", "catch"}
  /\ wk' = [wk EXCEPT ![w] = OffWorker]
  /\ UNCHANGED <<gateVars, now, nticks, env, dbVars, dumpCache, req>>

InitCrash == InitWith({FALSE})

NextCrash ==
  \/ \E b \in CrashPuts : versions = <<>> /\ StartWrite(1, "put", "T1", NoKey, b, TRUE)
  \/ WriteStep(1)
  \/ EnqueueJob(1)
  \/ \E w \in Workers : WorkerStart(w, FALSE)
  \/ \E w \in Workers : WorkerLoop(w)
  \/ \E w \in Workers : Elapse(w)
  \/ \E w \in Workers : WorkerCrash(w)
  \/ AdminRequeue("T1", "running", 100)

SpecCrash ==
  /\ InitCrash /\ [][NextCrash]_vars
  /\ \A w \in Workers : /\ WF_vars(WorkerStart(w, FALSE))
                        /\ WF_vars(WorkerLoop(w))
                        /\ WF_vars(Elapse(w))

\* the job of version vid is running and no worker is processing it
Orphaned(vid) ==
  HasJob(vid) /\ JobOf(vid).status = "running" /\ Processing(vid) = {}

\* C33: a job whose worker stopped before writing the outcome does not stay
\* running forever: it is eventually queued again or failed.
C33_RunningNotForever ==
  \A vid \in 1..MaxVersions :
    Orphaned(vid) ~> (HasJob(vid) /\ JobOf(vid).status \in {"queued", "failed"})

\* ------------------------------------------------------------------------
\* SpecBackoff: one job and two workers that run the loop against a provider
\* that answers or fails; the clock moves to the end of a backoff sleep.
BackoffPuts == PutBodies({P_x}, {1}, {0}, {TRUE})

InitBackoff == InitWith({FALSE})

NextBackoff ==
  \/ \E b \in BackoffPuts : versions = <<>> /\ StartWrite(1, "put", "T1", NoKey, b, TRUE)
  \/ WriteStep(1)
  \/ EnqueueJob(1)
  \/ \E w \in Workers : WorkerStart(w, FALSE)
  \/ \E w \in Workers : WorkerLoop(w)
  \/ \E w \in Workers : Elapse(w)

SpecBackoff == InitBackoff /\ [][NextBackoff]_vars

\* the step is worker w's claim of the job of version vid
Claims(w, vid) ==
  wk[w].pc = "claim" /\ wk'[w].pc = "embed" /\ wk'[w].job = vid

\* worker v sleeps the backoff min(2^k, 32) s after attempt k of the job of version
\* vid failed, k being the job's latest attempt
SleepsAfter(v, vid) ==
  wk[v].pc = "backoff" /\ wk[v].job = vid /\ wk[v].attempts = JobOf(vid).attempts

\* C34: after attempt k of a job has failed, no worker starts its next attempt
\* before min(2^k, 32) s have passed, that is before the sleep of the worker
\* that made attempt k has ended.
C34_BackoffRespected ==
  [][\A w \in Workers, vid \in 1..MaxVersions :
       Claims(w, vid) =>
         \A v \in Workers : SleepsAfter(v, vid) => now >= wk[v].wake]_vars

\* ------------------------------------------------------------------------
\* the step is worker w's final update of its job, or request r's job statement
\* after a successful inline embedding: both write the status done
WritesDone(w, r) ==
  \/ wk[w].pc = "finish" /\ wk'[w] # wk[w]
  \/ req[r].pc = "jobDone" /\ req'[r] # req[r]

\* the database rejected the statement of the step: control is in the catch block
Rejected(w, r) ==
  \/ wk[w].pc = "finish" /\ wk'[w].pc = "catch"
  \/ req[r].pc = "jobDone" /\ req'[r].pc = "enqueueErr"

\* C35: every status the API or the worker writes to embedding_jobs is admitted
\* by embedding_jobs_status_check, so that no status write is rejected: the rows
\* hold admitted values only, and the statements that write the status of a
\* finished job go through.
C35_StatusesAdmitted ==
  [][/\ \A j \in jobs' : j.status \in JobStatusCheck
     /\ \A w \in Workers, r \in Slots : WritesDone(w, r) => ~Rejected(w, r)]_vars

\* the part of C35 that the database enforces: no row holds a status outside the
\* constraint
StoredStatusesAdmitted == \A j \in jobs : j.status \in JobStatusCheck

\* ------------------------------------------------------------------------
\* SpecWindow: DELETE requests of one tenant under a valid key, one at a time, with
\* the endpoint rate limit at 2 per minute; the clock moves between the requests,
\* so that an admitted DELETE writes its tombstone in the second of its admission.
\* A DELETE of an invalid path is admitted and counted, and writes nothing.
WindowAuths == {[id |-> "w", secret |-> "s"]}

WindowDeletes == DeleteBodies({P_x, P_bad})

WindowTicks == {1, WINDOW_SECONDS - 1}

InitWindow == InitEnv({FALSE}, {0}, {GateRateLimit})

NextWindow ==
  \/ \E auth \in WindowAuths, b \in WindowDeletes :
       Quiet /\ Arrive(1, "delete", "ip1", auth, NoKey, b)
  \/ GateStep(1)
  \/ InsertVersion(1)
  \/ UpsertEntry(1)
  \/ \E d \in WindowTicks : Quiet /\ Tick(d)

SpecWindow == InitWindow /\ [][NextWindow]_vars

\* the tombstones of tenant t written in the 60 s from time t0 on: each is the work
\* of a DELETE that the limiter admitted in that time
AdmittedDeletes(t, t0) ==
  {i \in 1..Len(versions) :
     /\ versions[i].tenant_id = t /\ versions[i].deleted_at # NULL
     /\ t0 <= versions[i].created_at /\ versions[i].created_at < t0 + WINDOW_SECONDS}

\* C36: the limiter of a (tenant, endpoint) admits at most L requests in any
\* interval of 60 s, wherever the interval starts.
C36_SlidingWindow ==
  \A t \in Tenants, t0 \in 0..now :
    Cardinality(AdmittedDeletes(t, t0)) <= env.RATE_LIMIT_REQUESTS_PER_MINUTE

\* the part of C36 that holds: within one window of the limiter, from its first
\* request to its resetAt, no more than L requests are admitted
FixedWindowBound ==
  \A t \in Tenants :
    LET w == limits[<<t, "delete">>]
    IN w # NoLimit =>
         /\ w.count <= env.RATE_LIMIT_REQUESTS_PER_MINUTE
         /\ Cardinality(AdmittedDeletes(t, w.resetAt - WINDOW_SECONDS))
              <= env.RATE_LIMIT_REQUESTS_PER_MINUTE

\* ------------------------------------------------------------------------
\* SpecHidden: one client writes and deletes /d/y and reads it back with GET,
\* LIST of /d, GLOB of /d/* and DUMP, one request at a time; the clock stands
\* still, so every dump cache entry is within its TTL.
HiddenPuts == PutBodies({P_dy}, {1}, {0}, {FALSE})

HiddenDeletes == DeleteBodies({P_dy})

InitHidden == InitWith({FALSE})

NextHidden ==
  \/ \E b \in HiddenPuts : Quiet /\ StartWrite(1, "put", "T1", NoKey, b, TRUE)
  \/ \E b \in HiddenDeletes : Quiet /\ StartWrite(1, "delete", "T1", NoKey, b, TRUE)
  \/ WriteStep(1)
  \/ \E a \in AgentIds : Quiet /\ Get(2, "T1", a, P_dy)
  \/ \E a \in AgentIds : Quiet /\ List(2, "T1", a, P_d)
  \/ \E a \in AgentIds : Quiet /\ Glob(2, "T1", a, G_d)
  \/ \E a \in AgentIds, limit \in DumpLimits : Quiet /\ DumpStart(2, "T1", a, limit)
  \/ DumpStep(2)

SpecHidden == InitHidden /\ [][NextHidden]_vars

\* the last write of path p of (t, a) was a DELETE, and it has completed
DeleteCompleted(t, a, p) ==
  /\ Quiet
  /\ VersionsOf(t, a, p) # <<>>
  /\ VersionsOf(t, a, p)[Len(VersionsOf(t, a, p))].deleted_at # NULL
  /\ entries[<<t, a, p>>] = VersionsOf(t, a, p)[Len(VersionsOf(t, a, p))].id

\* the response of the read rec returns path p
Returns(rec, p) ==
  /\ rec.resp.status = 200
  /\ \/ rec.op = "get" /\ rec.resp.found
     \/ rec.op \in {"list", "dump"} /\ \E i \in 1..Len(rec.resp.rows) : rec.resp.rows[i].path = p
     \/ rec.op = "glob" /\ \E i \in 1..Len(rec.resp.rows) : rec.resp.rows[i] = p

\* the step ends the read in slot r
ReadEnds(r) == req'[r] # req[r] /\ req'[r].pc = "done" /\ req'[r].op \in {"get", "list", "glob", "dump"}

\* C37: a GET, LIST, GLOB or DUMP that is made after DELETE(P) has completed, no
\* write of P following, does not return P.
C37_DeletedHidden ==
  [][\A r \in Slots :
       (ReadEnds(r) /\ DeleteCompleted(req'[r].tenant, req'[r].body.agent_id, P_dy))
       => ~Returns(req'[r], P_dy)]_vars

\* the part of C37 that holds: GET, LIST and GLOB do not return a deleted path
DeletedHiddenFromQueries ==
  [][\A r \in Slots :
       (ReadEnds(r) /\ req'[r].op # "dump"
          /\ DeleteCompleted(req'[r].tenant, req'[r].body.agent_id, P_dy))
       => ~Returns(req'[r], P_dy)]_vars

\* ------------------------------------------------------------------------
\* SpecReplay: one client sends PUTs (searchable or not) and DELETEs of /x under
\* Idempotency-Keys, one request at a time, and repeats them; no embedder is
\* configured, so every executed searchable PUT enqueues a job. The clock stands still, so
\* no record expires.
ReplayPuts == PutBodies({P_x}, Values, {0}, BOOLEAN)

ReplayDeletes == DeleteBodies({P_x})

InitReplay == InitWith({FALSE})

NextReplay ==
  \/ \E r \in Slots, k \in Keys, b \in ReplayPuts : Quiet /\ StartWrite(r, "put", "T1", k, b, TRUE)
  \/ \E r \in Slots, k \in Keys, b \in ReplayDeletes :
       Quiet /\ StartWrite(r, "delete", "T1", k, b, TRUE)
  \/ \E r \in Slots : WriteStep(r)
  \/ \E r \in Slots : KeyStep(r)
  \/ \E r \in Slots : EnqueueJob(r)

SpecReplay == InitReplay /\ [][NextReplay]_vars

\* the lookup of request r finds a stored, unexpired record whose hash matches the body
HitsRecord(r) ==
  LET row == idem[<<req[r].tenant, req[r].key>>]
  IN /\ req[r].pc = "idem" /\ req'[r] # req[r]
     /\ row # NoRow /\ ~IdemExpired(row)
     /\ \/ row.request_hash = hashRequestCanonical(req[r].body)
        \/ row.request_hash = hashRequestLegacy(req[r].body)

\* C38: a PUT or DELETE whose lookup hits a stored, unexpired record with a
\* matching hash ends there with the stored response and leaves the store as it
\* is: no version, no move of a latest pointer, no job, no embedding, no change
\* of the records or of the quota counters.
C38_ReplayChangesNothing ==
  [][\A r \in Slots :
       HitsRecord(r)
       => /\ req'[r].pc = "done"
          /\ req'[r].resp = idem[<<req[r].tenant, req[r].key>>].response_json
          /\ UNCHANGED <<versions, entries, jobs, embeddings, idem, quota>>]_vars

\* a PUT was executed and then replayed: both calls carry the response of the one
\* version, and the one job is that of the first call
C38_ReplayedPut ==
  /\ req[1].pc = "done" /\ req[2].pc = "done"
  /\ req[1].op = "put" /\ req[2].op = "put"
  /\ req[1].key = req[2].key /\ req[1].body = req[2].body
  /\ req[1].resp.status = 200 /\ req[2].resp = req[1].resp
  /\ Len(versions) = 1 /\ Cardinality(jobs) = 1
  /\ \A k \in Triples : entries[k] \in {0, 1}

\* ------------------------------------------------ client input errors (C39)
\* The Idempotency-Key header as the client sends it, a sequence of characters.
\* KeyAlphabet stands for the class [a-zA-Z0-9_-] of the handler's test.
KeyAlphabet == {"k", "_", "-"}

MAX_KEY_LEN == 128

RECURSIVE TrimLeft(_)
TrimLeft(s) == IF s # <<>> /\ s[1] = " " THEN TrimLeft(Tail(s)) ELSE s

RECURSIVE TrimRight(_)
TrimRight(s) ==
  IF s # <<>> /\ s[Len(s)] = " " THEN TrimRight(SubSeq(s, 1, Len(s) - 1)) ELSE s

RECURSIVE KeyString(_)
KeyString(s) == IF s = <<>> THEN "" ELSE s[1] \o KeyString(Tail(s))

\* the header trimmed; none when empty; a throw when longer than 128 characters or
\* holding a character outside the alphabet
getIdempotencyKey(raw) ==
  LET key == TrimRight(TrimLeft(raw))
  IN IF key = <<>> THEN [ok |-> TRUE, key |-> <<>>]
     ELSE IF Len(key) > MAX_KEY_LEN THEN [ok |-> FALSE, key |-> <<>>]
     ELSE IF \E i \in 1..Len(key) : key[i] \notin KeyAlphabet THEN [ok |-> FALSE, key |-> <<>>]
     ELSE [ok |-> TRUE, key |-> key]

\* PUT and DELETE from the header on: the handler turns the throw of the key check
\* into 400 INVALID_IDEMPOTENCY_KEY, after the rate limit and Body.parse
StartWriteHeader(r, op, t, raw, b, admitted) ==
  LET g == getIdempotencyKey(raw)
  IN IF admitted /\ ~g.ok
     THEN /\ Free(r)
          /\ req' = [req EXCEPT ![r] =
                       Reply(NewReq(op, t, NoKey, b),
                             setErrorHandler(Thrown(400, "INVALID_IDEMPOTENCY_KEY",
                                                    "Invalid Idempotency-Key")))]
          /\ UNCHANGED <<gateVars, now, nticks, env, dbVars, dumpCache, wk>>
     ELSE StartWrite(r, op, t, IF g.ok /\ g.key # <<>> THEN KeyString(g.key) ELSE NoKey,
                     b, admitted)

\* SpecInputs: one client sends PUTs to /x and to a reserved path, with and without
\* Idempotency-Key headers, valid and invalid, and GLOBs with patterns that keep
\* and that break the rules, one request at a time, until two versions are written.
LongKey == [i \in 1..(MAX_KEY_LEN + 1) |-> "k"]

InputHeaders == {<<>>, <<"k">>, <<" ", "k", " ">>, <<" ">>, <<"k", " ", "k">>, <<"k", "!">>, LongKey}

G_rel == <<"d", "/", "*">>

G_dot == <<"/", "d", "/", ".">>

G_dotdot == <<"/", ".", ".", "/", "x">>

G_root == <<"/">>

G_slashes == <<"/", "/", "x">>

G_long == [i \in 1..(MAX_PATH_LEN + 1) |-> IF i = 1 THEN "/" ELSE "x"]

InputGlobs == {<<>>, G_rel, G_dot, G_dotdot, G_root, G_slashes, G_long, G_all}

InputPuts == PutBodies({P_x, P_sys}, {1}, {0}, {FALSE})

MaxInputPuts == 2

InitInputs == InitNode({FALSE}, {PREAUTH_RATE_LIMIT_PER_MINUTE},
                       {RATE_LIMIT_REQUESTS_PER_MINUTE}, NodeEnvs)

NextInputs ==
  \/ \E r \in Slots, raw \in InputHeaders, b \in InputPuts :
       Quiet /\ Len(versions) < MaxInputPuts /\ StartWriteHeader(r, "put", "T1", raw, b, TRUE)
  \/ \E r \in Slots : WriteStep(r)
  \/ \E r \in Slots : KeyStep(r)
  \/ \E r \in Slots, g \in InputGlobs : Quiet /\ Glob(r, "T1", "a", g)

SpecInputs == InitInputs /\ [][NextInputs]_vars

ClientErrorStatuses == {400, 403, 422}

\* the GLOB that ends in this step carries a pattern that breaks the rules
BadGlob(r) ==
  /\ req'[r] # req[r] /\ req'[r].pc = "done" /\ req'[r].op = "glob"
  /\ ~normalizeGlobPattern(req'[r].body.path).ok

\* the PUT without key that ends in this step names a reserved path
ReservedPut(r) ==
  /\ req'[r] # req[r] /\ req'[r].pc = "done" /\ req'[r].op = "put"
  /\ req'[r].key = NoKey
  /\ normalizePath(req'[r].body.path).ok
  /\ isReservedPath(normalizePath(req'[r].body.path).path)

\* the PUT that starts in this step carries an Idempotency-Key the check rejects
BadKey(r) ==
  \E raw \in InputHeaders, b \in InputPuts :
    /\ ~getIdempotencyKey(raw).ok
    /\ StartWriteHeader(r, "put", "T1", raw, b, TRUE)

\* C39: a GLOB whose pattern breaks the glob rules, a PUT to a reserved path and
\* a PUT with an invalid Idempotency-Key are each answered with status 400, 403
\* or 422, never with a 5xx.
C39_InputErrorsTyped ==
  [][\A r \in Slots :
       (BadGlob(r) \/ ReservedPut(r) \/ BadKey(r))
       => req'[r].resp.status \in ClientErrorStatuses]_vars

\* what holds: a reserved path, an invalid Idempotency-Key, and a pattern that is
\* empty, too long or does not start with "/" are answered with 400 or 403
SchemaRejects(raw) == raw = <<>> \/ Len(raw) > MAX_PATH_LEN \/ ~StartsWith(raw, <<"/">>)

InputErrorsTypedButSegments ==
  [][\A r \in Slots :
       ((BadGlob(r) /\ SchemaRejects(req'[r].body.path)) \/ ReservedPut(r) \/ BadKey(r))
       => req'[r].resp.status \in ClientErrorStatuses]_vars

\* ------------------------------------- SEARCH when the embedder fails (C40)
\* the step answers the SEARCH in slot r after the request to the provider failed,
\* timed out or was answered with an error status
EmbedderFails(r) == SearchFails(r) /\ req'[r].upstream.kind \in {"network", "status"}

\* C40: a SEARCH whose embedder call fails or times out is answered with status
\* 502, code EMBEDDINGS_API_ERROR and the generic message "Embeddings service
\* temporarily unavailable", whatever NODE_ENV is, production included.
C40_SearchEmbedderError ==
  [][\A r \in Slots :
       EmbedderFails(r)
       => /\ req'[r].resp.status = 502
          /\ req'[r].resp.code = "EMBEDDINGS_API_ERROR"
          /\ req'[r].resp.message = "Embeddings service temporarily unavailable"]_vars

\* what holds: the status is 502 in every NODE_ENV, and the code and the message
\* are the embedder's outside production
SearchEmbedderErrorOutsideProduction ==
  [][\A r \in Slots :
       EmbedderFails(r)
       => /\ req'[r].resp.status = 502
          /\ env.NODE_ENV # "production"
             => /\ req'[r].resp.code = "EMBEDDINGS_API_ERROR"
                /\ req'[r].resp.message = "Embeddings service temporarily unavailable"
          /\ env.NODE_ENV = "production"
             => /\ req'[r].resp.code = "INTERNAL"
                /\ req'[r].resp.message = "Internal error"]_vars

====
